---- MODULE Spec2Model ----
(***************************************************************************)
(* Match reconciliation of the name-screening comparison tool.             *)
(*                                                                         *)
(* Two revisions of compareSdnData are modelled:                           *)
(*   - the three-source revision of src/App.js (V2, V4, Univius), which    *)
(*     returns the three only-in lists;                                    *)
(*   - the two-source revision of src/utils/dateUtils.js (line 1121),      *)
(*     which returns onlyInV2, onlyInV4 and inBoth with rank positions.    *)
(* JavaScript values are modelled as strings; Undefined stands for a       *)
(* missing field, "" for an empty one.  A JavaScript Set or Map is a       *)
(* duplicate-free sequence in insertion order, which is the order in       *)
(* which forEach visits it.                                                *)
(***************************************************************************)
EXTENDS Integers, Sequences, FiniteSets, TLC

\* ------------------------------------------------------------------ bounds
MaxId  == 2    \* number of distinct non-empty sdn ids
MaxLen == 3    \* longest response list of the first source

IdPool   == <<"101", "102", "103", "104">>
NamePool == <<"Alice", "Bob", "Carol", "Dave">>
RefPool  == <<"OFAC", "EU", "UN", "HMT">>

Ids == {IdPool[i] : i \in 1..MaxId}

\* ------------------------------------------------------- JavaScript values
Undefined == "undefined"
Null      == 0
NA        == "N/A"

\* Boolean(x) for the string-or-undefined values of the model
Truthy(x) == x # Undefined /\ x # ""

\* x || d
OrElse(x, d) == IF Truthy(x) THEN x ELSE d

\* --------------------------------------------------------------- records
\* one element of data.responses; rd is FALSE when it has no rulesDetails
RuleItem(id, nm, ref) ==
    [rd |-> TRUE, sdnid |-> id, sdnname |-> nm, sanctionReferenceName |-> ref]

NoRulesItem ==
    [rd |-> FALSE, sdnid |-> Undefined, sdnname |-> Undefined,
     sanctionReferenceName |-> Undefined]

\* one element of the Univius array
UnivItem(id, nm, ref) == [sdnId |-> id, sdnName |-> nm, listName |-> ref]

\* item.rulesDetails?.sdnid and friends
SdnidOf(item)   == IF item.rd THEN item.sdnid ELSE Undefined
SdnnameOf(item) == IF item.rd THEN item.sdnname ELSE Undefined
RefOf(item)     == IF item.rd THEN item.sanctionReferenceName ELSE Undefined

\* (data?.responses || [])
Responses(data) == IF data.hasResponses THEN data.responses ELSE <<>>

\* (Array.isArray(univiusData) ? univiusData : [])
UnivArray(univiusData) == IF univiusData.isArray THEN univiusData.items ELSE <<>>

\* ------------------------------------------------------------ Set and Map
SeqHas(s, x) == \E i \in 1..Len(s) : s[i] = x

\* Set.prototype.add
SetAdd(s, x) == IF SeqHas(s, x) THEN s ELSE Append(s, x)

\* new Set(array)
NewSet(arr) ==
    LET F[i \in 0..Len(arr)] ==
            IF i = 0 THEN <<>> ELSE SetAdd(F[i - 1], arr[i])
    IN  F[Len(arr)]

MapHas(m, key) == \E i \in 1..Len(m) : m[i].k = key

MapGet(m, key) == m[CHOOSE i \in 1..Len(m) : m[i].k = key].v

\* a set that deletes an existing key and inserts it again at the end
MapSetMoveToEnd(m, key, val) ==
    Append(SelectSeq(m, LAMBDA e : e.k # key), [k |-> key, v |-> val])

\* Map.prototype.set: an existing key keeps its place and takes the new value
MapSet(m, key, val) ==
    IF MapHas(m, key)
    THEN [i \in 1..Len(m) |->
             IF m[i].k = key THEN [k |-> key, v |-> val] ELSE m[i]]
    ELSE Append(m, [k |-> key, v |-> val])

\* array.map(f)
MapSeq(s, f(_)) == [i \in 1..Len(s) |-> f(s[i])]

\* the first element of s satisfying Test (callers guarantee there is one)
FindFirst(s, Test(_)) == s[CHOOSE i \in 1..Len(s) :
                              Test(s[i]) /\ \A j \in 1..(i - 1) : ~Test(s[j])]

Exists(s, Test(_)) == \E i \in 1..Len(s) : Test(s[i])

\* ------------------------------------------ compareSdnData, src/App.js
\* responses.flatMap(item => item.rulesDetails?.sdnid || []).filter(Boolean)
SdnidsOf(responses) == SelectSeq(MapSeq(responses, SdnidOf), Truthy)

\* v2Sdns / v4Sdns: the distinct truthy ids of a V2 or V4 response
RuleSdns(data) == NewSet(SdnidsOf(Responses(data)))

\* univiusSdns: the distinct truthy ids of the Univius array
UniviusSdns(univiusData) ==
    NewSet(SelectSeq(MapSeq(UnivArray(univiusData), LAMBDA it : it.sdnId),
                     Truthy))

\* findSdnInfo(data, sdnId) finds a rule: the "if (sdnInfo)" test
HasSdnInfo(data, sdnId) ==
    Exists(Responses(data), LAMBDA it : it.rd /\ it.sdnid = sdnId)

\* findSdnInfo(data, sdnId): the first rulesDetails whose sdnid is sdnId
findSdnInfo(data, sdnId) ==
    FindFirst(Responses(data), LAMBDA it : it.rd /\ it.sdnid = sdnId)

HasUnivInfo(univiusData, sdnId) ==
    Exists(UnivArray(univiusData), LAMBDA it : it.sdnId = sdnId)

findUnivInfo(univiusData, sdnId) ==
    FindFirst(UnivArray(univiusData), LAMBDA it : it.sdnId = sdnId)

\* the two-source test, which forgets the third source
ExclusiveToFirstOnly(own, a, b) ==
    SelectSeq(own, LAMBDA id : ~SeqHas(a, id))

\* own.forEach(sdnId => { if (!a.has(sdnId) && !b.has(sdnId)) ... })
ExclusiveTo(own, a, b) ==
    SelectSeq(own, LAMBDA id : ~SeqHas(a, id) /\ ~SeqHas(b, id))

\* the entry pushed for an id found only in a V2 or V4 response
RuleEntry(data, sdnId) ==
    [id        |-> sdnId,
     name      |-> OrElse(findSdnInfo(data, sdnId).sdnname, NA),
     reference |-> OrElse(findSdnInfo(data, sdnId).sanctionReferenceName, "")]

\* the entry pushed for an id found only in the Univius array
UnivEntry(univiusData, sdnId) ==
    [id        |-> sdnId,
     name      |-> OrElse(findUnivInfo(univiusData, sdnId).sdnName, NA),
     reference |-> OrElse(findUnivInfo(univiusData, sdnId).listName, "")]

compareSdnData(v2, v4, univius) ==
    LET v2Sdns      == RuleSdns(v2)
        v4Sdns      == RuleSdns(v4)
        univiusSdns == UniviusSdns(univius)
    IN  [onlyInV2 |->
            MapSeq(SelectSeq(ExclusiveTo(v2Sdns, v4Sdns, univiusSdns),
                             LAMBDA id : HasSdnInfo(v2, id)),
                   LAMBDA id : RuleEntry(v2, id)),
         onlyInV4 |->
            MapSeq(SelectSeq(ExclusiveTo(v4Sdns, v2Sdns, univiusSdns),
                             LAMBDA id : HasSdnInfo(v4, id)),
                   LAMBDA id : RuleEntry(v4, id)),
         onlyInUnivius |->
            MapSeq(SelectSeq(ExclusiveTo(univiusSdns, v2Sdns, v4Sdns),
                             LAMBDA id : HasUnivInfo(univius, id)),
                   LAMBDA id : UnivEntry(univius, id))]

\* ------------------------- compareSdnData, src/utils/dateUtils.js:1121
\* the value stored in v2SdnInfo for the item at index + 1 = i
V2InfoValue(item, i) ==
    [position  |-> i,
     name      |-> OrElse(item.sdnname, NA),
     reference |-> OrElse(item.sanctionReferenceName, "")]

\* v2SdnInfo: every truthy id is set, a repeated id overwrites its value
V2SdnInfo(responses) ==
    LET F[i \in 0..Len(responses)] ==
            IF i = 0 THEN <<>>
            ELSE IF Truthy(SdnidOf(responses[i]))
                 THEN MapSet(F[i - 1], SdnidOf(responses[i]),
                             V2InfoValue(responses[i], i))
                 ELSE F[i - 1]
    IN  F[Len(responses)]

\* v4SdnPositions storing index instead of index + 1
V4SdnPositionsZeroBased(responses) ==
    LET F[i \in 0..Len(responses)] ==
            IF i = 0 THEN <<>>
            ELSE IF Truthy(SdnidOf(responses[i]))
                    /\ ~MapHas(F[i - 1], SdnidOf(responses[i]))
                 THEN MapSet(F[i - 1], SdnidOf(responses[i]), i - 1)
                 ELSE F[i - 1]
    IN  F[Len(responses)]

\* v4SdnPositions: a truthy id is set only when the map does not have it
V4SdnPositions(responses) ==
    LET F[i \in 0..Len(responses)] ==
            IF i = 0 THEN <<>>
            ELSE IF Truthy(SdnidOf(responses[i]))
                    /\ ~MapHas(F[i - 1], SdnidOf(responses[i]))
                 THEN MapSet(F[i - 1], SdnidOf(responses[i]), i)
                 ELSE F[i - 1]
    IN  F[Len(responses)]

\* sdnData built for one entry of v2SdnInfo
SdnData(e, v4SdnPositions) ==
    [id         |-> e.k,
     name       |-> e.v.name,
     reference  |-> e.v.reference,
     v2Position |-> e.v.position,
     v4Position |-> IF MapHas(v4SdnPositions, e.k)
                    THEN MapGet(v4SdnPositions, e.k) ELSE Null]

\* the entry pushed to onlyInV4 for one entry of v4SdnPositions
OnlyInV4Entry(e, v4Responses) ==
    LET v4Item == FindFirst(v4Responses, LAMBDA it : SdnidOf(it) = e.k)
    IN  [id         |-> e.k,
         name       |-> OrElse(SdnnameOf(v4Item), NA),
         reference  |-> OrElse(RefOf(v4Item), ""),
         v2Position |-> Null,
         v4Position |-> e.v]

\* the test "if (v4Position !== null)" in place of "if (v4Position)": an
\* id the second source lacks has the position undefined and counts as common
compareSdnDataPosStrictNull(v2, v4) ==
    LET v2SdnInfo      == V2SdnInfo(Responses(v2))
        v4Responses    == Responses(v4)
        v4SdnPositions == V4SdnPositions(v4Responses)
        all == MapSeq(v2SdnInfo, LAMBDA e : SdnData(e, v4SdnPositions))
    IN  [onlyInV2 |-> <<>>,
         onlyInV4 |->
            MapSeq(SelectSeq(v4SdnPositions,
                             LAMBDA e : ~MapHas(v2SdnInfo, e.k)),
                   LAMBDA e : OnlyInV4Entry(e, v4Responses)),
         inBoth   |-> all,
         v2SdnInfo      |-> v2SdnInfo,
         v4SdnPositions |-> v4SdnPositions]

compareSdnDataPos(v2, v4) ==
    LET v2SdnInfo      == V2SdnInfo(Responses(v2))
        v4Responses    == Responses(v4)
        v4SdnPositions == V4SdnPositions(v4Responses)
        all == MapSeq(v2SdnInfo, LAMBDA e : SdnData(e, v4SdnPositions))
    IN  [onlyInV2 |-> SelectSeq(all, LAMBDA d : d.v4Position = Null),
         onlyInV4 |->
            MapSeq(SelectSeq(v4SdnPositions,
                             LAMBDA e : ~MapHas(v2SdnInfo, e.k)),
                   LAMBDA e : OnlyInV4Entry(e, v4Responses)),
         inBoth   |-> SelectSeq(all, LAMBDA d : d.v4Position # Null),
         v2SdnInfo      |-> v2SdnInfo,
         v4SdnPositions |-> v4SdnPositions]

\* ----------------------------- property reads that raise a TypeError
\* a read of a property of undefined raises; "?." and "|| []" guard it
\*
\* flatMap(item => item.rulesDetails || []): the rules findSdnInfo searches,
\* a response without rulesDetails contributes none
RulesOf(data) == SelectSeq(Responses(data), LAMBDA item : item.rd)

\* find(rule => rule.sdnid === sdnId) reads rule.sdnid of every rule up to
\* the first match: it raises when one of them is undefined
findSdnInfoRaises(data, sdnId) ==
    LET rules == RulesOf(data)
    IN  \E i \in 1..Len(rules) :
            /\ ~rules[i].rd
            /\ \A j \in 1..(i - 1) : rules[j].sdnid # sdnId

\* the three-source compareSdnData raises: item.rulesDetails?.sdnid and
\* item.sdnId read defined items, sdnInfo is read under "if (sdnInfo)"
compareSdnDataRaises(v2, v4, univius) ==
    LET v2Sdns      == RuleSdns(v2)
        v4Sdns      == RuleSdns(v4)
        univiusSdns == UniviusSdns(univius)
    IN  \/ \E i \in 1..Len(ExclusiveTo(v2Sdns, v4Sdns, univiusSdns)) :
              findSdnInfoRaises(v2,
                  ExclusiveTo(v2Sdns, v4Sdns, univiusSdns)[i])
        \/ \E i \in 1..Len(ExclusiveTo(v4Sdns, v2Sdns, univiusSdns)) :
              findSdnInfoRaises(v4,
                  ExclusiveTo(v4Sdns, v2Sdns, univiusSdns)[i])

\* the loop body reading item.rulesDetails.sdnid without "?."
V2ItemRaisesUnguarded(item) == ~item.rd

\* the body of the v2 loop of the two-source revision: sdnId is read with
\* "?."; item.rulesDetails.sdnname is read only under "if (sdnId)"
V2ItemRaises(item) == Truthy(SdnidOf(item)) /\ ~item.rd

\* the two-source compareSdnData raises: the v4 loop and the v4 lookup
\* read through "?." only
compareSdnDataPosRaises(v2, v4) ==
    \E i \in 1..Len(Responses(v2)) : V2ItemRaises(Responses(v2)[i])

\* ------------------------- exclusivity filters of the export and the tab
\* result.v2.responses.map(item => ({ id: sdnid || 'N/A', name: ... }))
ExportRuleSdns(data) ==
    MapSeq(Responses(data),
           LAMBDA it : [id   |-> OrElse(SdnidOf(it), NA),
                        name |-> OrElse(SdnnameOf(it), NA)])

\* result.univius.map(item => ({ id: sdnId || 'N/A', name: ..., reference }))
ExportUnivSdns(univiusData) ==
    MapSeq(UnivArray(univiusData),
           LAMBDA it : [id        |-> OrElse(it.sdnId, NA),
                        name      |-> OrElse(it.sdnName, NA),
                        reference |-> OrElse(it.listName, "")])

\* own.filter(x => !a.some(y => y.id === x.id) && !b.some(y => y.id === x.id))
ExportOnlyIn(own, a, b) ==
    SelectSeq(own, LAMBDA x : ~Exists(a, LAMBDA y : y.id = x.id)
                              /\ ~Exists(b, LAMBDA y : y.id = x.id))

\* the three exclusivity lists exportToExcel computes for one result
ExportExclusive(result) ==
    LET v2Sdns      == ExportRuleSdns(result.v2)
        v4Sdns      == ExportRuleSdns(result.v4)
        univiusSdns == ExportUnivSdns(result.univius)
    IN  [onlyInV2      |-> ExportOnlyIn(v2Sdns, v4Sdns, univiusSdns),
         onlyInV4      |-> ExportOnlyIn(v4Sdns, v2Sdns, univiusSdns),
         onlyInUnivius |-> ExportOnlyIn(univiusSdns, v2Sdns, v4Sdns)]

\* own.filter(x => !other.some(y => y.rulesDetails?.sdnid === x.rulesDetails?.sdnid))
RawOnlyIn(own, other) ==
    SelectSeq(own, LAMBDA x :
                     ~Exists(other, LAMBDA y : SdnidOf(y) = SdnidOf(x)))

\* onlyInV2 and onlyInV4 of handleTabChange and exportOnlyInToExcel
\* (v2Sdns is result.v2?.responses when that has entries and [] otherwise,
\* so an entry of the inner catch, which has no v2 and no v4, gives [])
TabExclusive(result) ==
    LET v2Sdns == IF "v2" \in DOMAIN result THEN Responses(result.v2) ELSE <<>>
        v4Sdns == IF "v4" \in DOMAIN result THEN Responses(result.v4) ELSE <<>>
    IN  [onlyInV2 |-> RawOnlyIn(v2Sdns, v4Sdns),
         onlyInV4 |-> RawOnlyIn(v4Sdns, v2Sdns)]

\* the predicate of results.filter in handleTabChange
HasOnlyIn(result) ==
    Len(TabExclusive(result).onlyInV2) > 0
    \/ Len(TabExclusive(result).onlyInV4) > 0

\* `${sdn.sdnid || 'N/A'} - ${sdn.sdnname || 'N/A'}`, or '' past the list end
OnlyInText(list, i) ==
    IF i <= Len(list) /\ list[i].rd
    THEN <<OrElse(list[i].sdnid, NA), " - ", OrElse(list[i].sdnname, NA)>>
    ELSE <<>>

Max(a, b) == IF a >= b THEN a ELSE b

\* the rows exportOnlyInToExcel pushes for one result
OnlyInRows(result) ==
    LET ex      == TabExclusive(result)
        maxRows == Max(Len(ex.onlyInV2), Len(ex.onlyInV4))
    IN  [i \in 1..maxRows |->
            [Name     |-> IF i = 1 THEN result.name ELSE "",
             OnlyInV2 |-> OnlyInText(ex.onlyInV2, i),
             OnlyInV4 |-> OnlyInText(ex.onlyInV4, i)]]

\* exportData of exportOnlyInToExcel
RECURSIVE OnlyInExportData(_)
OnlyInExportData(rs) ==
    IF rs = <<>> THEN <<>>
    ELSE OnlyInRows(Head(rs)) \o OnlyInExportData(Tail(rs))

\* ------------------------------------------------------------------ state
\* ------------------------------------- splitSdnsForExport, src/App.js
\* a text is the sequence of the strings it is the concatenation of, so that
\* its lines and its ends can be told apart
MAX_CHUNK_SIZE == 30000

CRLF == "\r\n"

\* s.repeat(n)
RECURSIVE Repeat(_, _)
Repeat(s, n) ==
    IF n = 0 THEN ""
    ELSE LET h == Repeat(s, n \div 2)
         IN  IF n % 2 = 1 THEN h \o h \o s ELSE h \o h

\* a name with a space at its end
SpacedName == "Bob "

\* const sdnText = `${sdn.id} - ${sdn.name}\r\n`
SdnText(sdn) == <<sdn.id, " - ", sdn.name, CRLF>>

\* the string a text stands for
RECURSIVE Str(_)
Str(t) == IF t = <<>> THEN "" ELSE Head(t) \o Str(Tail(t))

\* sdnText.length: the length of the string a text stands for
RECURSIVE TextLength(_)
TextLength(t) == IF t = <<>> THEN 0 ELSE Len(Head(t)) + TextLength(Tail(t))

\* currentChunk.join('')
RECURSIVE Join(_)
Join(lines) == IF lines = <<>> THEN <<>> ELSE Head(lines) \o Join(Tail(lines))

\* String.prototype.trim on one string of the model: white space and line
\* terminators go from its end, and from its start
TrimEndOf(s) ==
    CASE s = CRLF       -> ""
      [] s = " "        -> ""
      [] s = " - "      -> " -"
      [] s = "- "       -> "-"
      [] s = SpacedName -> "Bob"
      [] OTHER          -> s

TrimStartOf(s) ==
    CASE s = CRLF  -> ""
      [] s = " "   -> ""
      [] s = " - " -> "- "
      [] s = " -"  -> "-"
      [] OTHER     -> s

RECURSIVE TrimEnd(_)
TrimEnd(t) ==
    IF t = <<>> THEN <<>>
    ELSE LET front == SubSeq(t, 1, Len(t) - 1)
             last  == TrimEndOf(t[Len(t)])
         IN  IF last = "" THEN TrimEnd(front) ELSE Append(front, last)

RECURSIVE TrimStart(_)
TrimStart(t) ==
    IF t = <<>> THEN <<>>
    ELSE LET first == TrimStartOf(Head(t))
         IN  IF first = "" THEN TrimStart(Tail(t)) ELSE <<first>> \o Tail(t)

\* text.trim()
Trim(t) == TrimStart(TrimEnd(t))

\* the loop body closing the current chunk already when the next line
\* brings it to the limit exactly
SplitStepAtLimit(st, sdn) ==
    LET sdnText == SdnText(sdn)
        closes  == st.currentLength + TextLength(sdnText) >= MAX_CHUNK_SIZE
                   /\ Len(st.currentChunk) > 0
        chunk   == IF closes THEN <<>> ELSE st.currentChunk
        length  == IF closes THEN 0 ELSE st.currentLength
    IN  [result        |-> IF closes THEN Append(st.result, st.currentChunk)
                           ELSE st.result,
         currentChunk  |-> Append(chunk, sdnText),
         currentLength |-> length + TextLength(sdnText)]

\* the body of "for (const sdn of sdns)"; result holds the lines of every
\* closed chunk
SplitStep(st, sdn) ==
    LET sdnText == SdnText(sdn)
        closes  == st.currentLength + TextLength(sdnText) > MAX_CHUNK_SIZE
                   /\ Len(st.currentChunk) > 0
        chunk   == IF closes THEN <<>> ELSE st.currentChunk
        length  == IF closes THEN 0 ELSE st.currentLength
    IN  [result        |-> IF closes THEN Append(st.result, st.currentChunk)
                           ELSE st.result,
         currentChunk  |-> Append(chunk, sdnText),
         currentLength |-> length + TextLength(sdnText)]

\* the lines of every chunk, the last chunk closed after the loop
Chunking(sdns) ==
    LET F[i \in 0..Len(sdns)] ==
            IF i = 0
            THEN [result |-> <<>>, currentChunk |-> <<>>, currentLength |-> 0]
            ELSE SplitStep(F[i - 1], sdns[i])
        st == F[Len(sdns)]
    IN  IF Len(st.currentChunk) > 0 THEN Append(st.result, st.currentChunk)
        ELSE st.result

NoMatches == <<"No matches">>

\* { content: currentChunk.join('').trim(), isContinuation: result.length > 0 }
splitSdnsForExport(sdns) ==
    IF Len(sdns) = 0
    THEN <<[content |-> NoMatches, isContinuation |-> FALSE]>>
    ELSE LET closed == Chunking(sdns)
         IN  [k \in 1..Len(closed) |->
                 [content        |-> Trim(Join(closed[k])),
                  isContinuation |-> k > 1]]

\* ----------------------------------------- exportToExcel, src/App.js
\* the marker of the rows after the first of a result
ContMarker == "(cont.) "

\* a Name cell that stays empty on the rows after the first
RowNameBlank(result, i) == IF i = 1 THEN result.name ELSE ""

\* 'Name': isFirstRow ? result.name : `(cont.) ${result.name}`
RowName(result, i) ==
    IF i = 1 THEN result.name ELSE ContMarker \o result.name

\* chunks[i]?.content || (isFirstRow ? 'No matches' : '')
CellContent(chunkList, i) ==
    IF i <= Len(chunkList) /\ TextLength(chunkList[i].content) > 0
    THEN chunkList[i].content
    ELSE IF i = 1 THEN NoMatches ELSE <<>>

\* the six chunk lists of one result
ExportChunks(result) ==
    LET ex == ExportExclusive(result)
    IN  [v2          |-> splitSdnsForExport(ExportRuleSdns(result.v2)),
         onlyV2      |-> splitSdnsForExport(ex.onlyInV2),
         v4          |-> splitSdnsForExport(ExportRuleSdns(result.v4)),
         onlyV4      |-> splitSdnsForExport(ex.onlyInV4),
         univius     |-> splitSdnsForExport(ExportUnivSdns(result.univius)),
         onlyUnivius |-> splitSdnsForExport(ex.onlyInUnivius)]

\* Math.max(v2Chunks.length, ..., onlyUniviusChunks.length, 1)
MaxChunks(c) ==
    Max(Max(Max(Len(c.v2), Len(c.onlyV2)), Max(Len(c.v4), Len(c.onlyV4))),
        Max(Max(Len(c.univius), Len(c.onlyUnivius)), 1))

\* the rows exportToExcel pushes for one result (durations left out)
ExportRows(result) ==
    LET c == ExportChunks(result)
    IN  [i \in 1..MaxChunks(c) |->
            [Name          |-> RowName(result, i),
             V2Matches     |-> CellContent(c.v2, i),
             OnlyInV2      |-> CellContent(c.onlyV2, i),
             V4Matches     |-> CellContent(c.v4, i),
             OnlyInV4      |-> CellContent(c.onlyV4, i),
             UnivMatches   |-> CellContent(c.univius, i),
             OnlyInUnivius |-> CellContent(c.onlyUnivius, i)]]

\* exportData of exportToExcel
RECURSIVE ExportData(_)
ExportData(rs) ==
    IF rs = <<>> THEN <<>>
    ELSE ExportRows(Head(rs)) \o ExportData(Tail(rs))

VARIABLES
    revision,       \* "App": three-source revision, "dateUtils": two-source
    v2Data,         \* result.v2 (result.v1_2 in the two-source revision)
    v4Data,         \* result.v4 (result.v2 in the two-source revision)
    univiusData,    \* result.univius
    sdnComparison,  \* the value compareSdnData returned, <<>> before the call
    results,        \* React state results
    pc,             \* position in the loop body of handleProcessFile
    activeTab,      \* React state activeTab
    onlyInResults,  \* React state onlyInResults
    exportData      \* rows handed to the worksheet by the last export

\* state of a call of exportToExcel, src/App.js:406
VARIABLES
    exportPc,       \* "idle", or "waiting" at the await after a chunk
    closureResults, \* the results of the render the call was made in
    pendingRows     \* the local array exportData of a call under way

exportVars == <<exportPc, closureResults, pendingRows>>

\* state of a call of splitSdnsForExport
VARIABLES
    sdns,           \* the argument of the call
    chunks          \* the returned value, <<>> before the call returns

splitVars == <<sdns, chunks>>

\* state of handleProcessFile with the two-call processName
VARIABLES
    file,           \* React state file: the selected file, NoFile for null
    initializing,   \* React state initializing
    loading,        \* React state loading
    runFile,        \* the file the running handleProcessFile was started on
    names,          \* const names = extractNames(data)
    idx,            \* the loop variable i, 0-based
    ppc,            \* position in handleProcessFile / processName
    v2Response,     \* v2Response.data of processName, <<>> before it is set
    wire,           \* calls and their outcomes since the run started
    now             \* Date.now(), in starts of handleProcessFile

procVars == <<file, initializing, loading, runFile, names, idx, ppc,
              v2Response, wire, now>>

\* state of the request under way on the axios instance of every API of
\* createAxiosInstance; each variable but the first is a function of the
\* API name
VARIABLES
    authRevision,   \* the service: "apiService" (src/services/apiService.js)
                    \* or "part_000" (src/unnamed/part_000)
    apc,            \* position of the request in the interceptors
    tokens,         \* localStorage.getItem(`${apiName}_authToken`), NoToken for null
    header,         \* the token in headers.Authorization of the request
    returned,       \* what the last getAccessToken call returned
    retryFlag,      \* originalRequest._retry
    refreshes,      \* getAccessToken calls of the response interceptor
    retries,        \* instance(originalRequest) calls
    tokenPosts,     \* token requests posted since the request was issued
    inFlight,       \* the configuration the interceptors hold: that of the
                    \* caller's request ("request") or that of a token
                    \* request ("tokenPost")
    replies,        \* the status of every response to the request
    outcome         \* what the caller of the request got

authVars == <<authRevision, apc, tokens, header, returned, retryFlag,
              refreshes, retries, tokenPosts, inFlight, replies, outcome>>

\* ------------------------------------------------ configuration (service)
\* A JavaScript object is a function of its own keys.
EmptyObject == <<>>

\* { ...a, ...b }: the keys of both, b's value where both have the key
Spread(a, b) == b @@ a

\* (o[k] || {}) for an object-valued key
ObjectOrEmpty(o, k) == IF k \in DOMAIN o THEN o[k] ELSE EmptyObject

\* (o[a]?.keycloak || {})
KeycloakOrEmpty(o, a) ==
    IF a \in DOMAIN o THEN ObjectOrEmpty(o[a], "keycloak") ELSE EmptyObject

KeycloakFields == {"url", "realm", "clientId", "username", "password"}

\* the module-level config of apiService.js before any update
ServiceDefaults ==
    [api1 |-> [url |-> "https://screeningdevv2.ap.loclx.io/v1.2",
               keycloak |-> [url |-> "https://keycloak-auth.inside10d.com",
                             realm |-> "ScreeningApp",
                             clientId |-> "screening-client",
                             username |-> "superuser",
                             password |-> "superuser"]],
     api2 |-> [url |-> "https://screeningdevv2.ap.loclx.io/v2",
               keycloak |-> [url |-> "https://keycloak-auth.inside10d.com",
                             realm |-> "ScreeningApp",
                             clientId |-> "screening-client",
                             username |-> "superuser",
                             password |-> "superuser"]]]

\* DEFAULT_CONFIG of App.js
DEFAULT_CONFIG ==
    [apiBaseUrl |-> "https://screeningdevv2.ap.loclx.io",
     keycloakUrl |-> "https://keycloak-auth.inside10d.com",
     keycloakRealm |-> "ScreeningApp",
     keycloakClientId |-> "screening-client",
     keycloakUsername |-> "superuser",
     keycloakPassword |-> "superuser",
     apiEndpointV1 |-> "v1.2",
     apiEndpointV2 |-> "v2"]

\* the api1 / api2 member of the object literal of updateConfig, replacing
\* the whole api object by what newConfig mentions
MergedApiShallow(config, newConfig, a) ==
    Spread(config[a], ObjectOrEmpty(newConfig, a))

\* the api1 / api2 member of the object literal of updateConfig
MergedApi(config, newConfig, a) ==
    Spread(Spread(config[a], ObjectOrEmpty(newConfig, a)),
           [keycloak |-> Spread(KeycloakOrEmpty(config, a),
                                KeycloakOrEmpty(newConfig, a))])

\* the value updateConfig assigns to config
MergedConfig(config, newConfig) ==
    Spread(Spread(config, newConfig),
           [api1 |-> MergedApi(config, newConfig, "api1"),
            api2 |-> MergedApi(config, newConfig, "api2")])

\* createAxiosInstance(apiName) under config: the instance's defaults
createAxiosInstance(config, a) == [baseURL |-> config[a].url]

\* apiInstances after updateConfig
Instances(config) ==
    [api1 |-> createAxiosInstance(config, "api1"),
     api2 |-> createAxiosInstance(config, "api2")]

\* the argument the effect on [config] of App passes to updateConfig
EffectArgument(c) ==
    [apiBaseUrl |-> c.apiBaseUrl,
     keycloakConfig |-> [url |-> c.keycloakUrl,
                         realm |-> c.keycloakRealm,
                         clientId |-> c.keycloakClientId,
                         username |-> c.keycloakUsername,
                         password |-> c.keycloakPassword],
     apiEndpoints |-> [v1_2 |-> c.apiEndpointV1, v2 |-> c.apiEndpointV2]]

\* what getAccessToken(apiName) posts under config
TokenRequestOf(config, a) ==
    [tokenUrl  |-> config[a].keycloak.url \o "/realms/"
                     \o config[a].keycloak.realm
                     \o "/protocol/openid-connect/token",
     client_id |-> config[a].keycloak.clientId,
     username  |-> config[a].keycloak.username,
     password  |-> config[a].keycloak.password]

\* state of the settings and of the service configuration
VARIABLES
    appConfig,      \* React state config of App
    configIsDefaults, \* the state is the object DEFAULT_CONFIG itself
    svcConfig,      \* the module variable config of apiService.js
    apiInstances,   \* apiInstances: the defaults of the instance of each API
    prevConfig,     \* config when updateConfig was last entered
    newConfigArg,   \* the argument of the last updateConfig call
    sentTo,         \* per API, the screening request sent since that call
    tokenSent       \* per API, the token request posted since that call

cfgVars == <<appConfig, configIsDefaults, svcConfig, apiInstances, prevConfig, newConfigArg,
             sentTo, tokenSent>>

\* no screening or token request has been sent
NothingSent ==
    /\ sentTo = [a \in {"api1", "api2"} |-> EmptyObject]
    /\ tokenSent = [a \in {"api1", "api2"} |-> EmptyObject]

\* the module is loaded and App is mounted with the default settings
CfgIdle ==
    /\ appConfig = DEFAULT_CONFIG
    /\ configIsDefaults = TRUE
    /\ svcConfig = MergedConfig(MergedConfig(ServiceDefaults, ServiceDefaults),
                                EffectArgument(DEFAULT_CONFIG))
    /\ apiInstances = Instances(svcConfig)
    /\ prevConfig = MergedConfig(ServiceDefaults, ServiceDefaults)
    /\ newConfigArg = EffectArgument(DEFAULT_CONFIG)
    /\ NothingSent

\* -------------------------------------------- processNameWithBothApis
\* what processName(name, apiName) returns for a response body: the body
\* and the bookkeeping keys
NameResult(body, a) == Spread(body, [_api |-> a])

\* what processName returns from its catch
NameError(message, a) == [success |-> FALSE, error |-> message, _api |-> a]

\* what processApi(apiName) returns for the value processName returned:
\* { success: true, ...result, api: apiName }, so that a success member of
\* result, that of the catch or one of the response body, replaces the true
ApiResult(result, a) ==
    Spread(Spread([success |-> TRUE], result), [api |-> a])

\* the success member of the combined result
CombinedSuccess(r1, r2) == r1.success \/ r2.success

\* the value processNameWithBothApis returns
CombinedResult(r1, r2) ==
    [success |-> CombinedSuccess(r1, r2), api1 |-> r1, api2 |-> r2]

\* state of a call of processNameWithBothApis
VARIABLES
    bothName,       \* the argument name, "" outside a call
    bothPc,         \* "idle", the API awaited ("api1", "api2"), "done"
    bothWire,       \* requests and their outcomes since the call started
    api1Result,     \* const api1Result, EmptyObject before it is set
    bothResult      \* the returned value, EmptyObject before the return

bothVars == <<bothName, bothPc, bothWire, api1Result, bothResult>>

BothIdle ==
    /\ bothName = ""
    /\ bothPc = "idle"
    /\ bothWire = <<>>
    /\ api1Result = EmptyObject
    /\ bothResult = EmptyObject

\* the state of the service module outside the interceptors
serviceVars == <<cfgVars, bothVars>>

ServiceIdle == CfgIdle /\ BothIdle

\* the state outside handleProcessFile's loop body and the tabs
extVars == <<exportVars, splitVars, procVars, authVars, serviceVars>>

vars == <<revision, v2Data, v4Data, univiusData, sdnComparison, results, pc,
          activeTab, onlyInResults, exportData, extVars>>

inputs == <<v2Data, v4Data, univiusData>>

QueryName == "John Doe"

\* --------------------------------------------------------- bounded inputs
\* a V2/V4 value with a responses array of n items over S; for n = 0 also
\* the value without a responses array
RuleDataOfLen(S, n) ==
    {[hasResponses |-> TRUE, responses |-> r] : r \in [1..n -> S]}
    \cup (IF n = 0 THEN {[hasResponses |-> FALSE, responses |-> <<>>]}
          ELSE {})

\* a Univius array of n items over S; for n = 0 also a value that is no array
UnivDataOfLen(S, n) ==
    {[isArray |-> TRUE, items |-> r] : r \in [1..n -> S]}
    \cup (IF n = 0 THEN {[isArray |-> FALSE, items |-> <<>>]} ELSE {})

NoUnivius == [isArray |-> FALSE, items |-> <<>>]

\* items in which an id always carries the same name
EntityItems ==
    {NoRulesItem, RuleItem("", Undefined, Undefined)}
    \cup {RuleItem(IdPool[i], NamePool[i], RefPool[i]) : i \in 1..MaxId}

EntityUnivItems ==
    {UnivItem(Undefined, Undefined, Undefined)}
    \cup {UnivItem(IdPool[i], NamePool[i], RefPool[i]) : i \in 1..MaxId}

\* the same, and a record of the first id without name and reference, so
\* that two occurrences of one id can differ
PosItems ==
    EntityItems \cup {RuleItem(IdPool[1], Undefined, Undefined)}

\* most records of the three sources together, three-source inputs
TriTotal == MaxLen + 1

\* exportToExcel has not been called
ExportIdle ==
    /\ exportPc = "idle"
    /\ closureResults = <<>>
    /\ pendingRows = <<>>

\* no call of splitSdnsForExport is under way
SplitIdle == sdns = <<>> /\ chunks = <<>>

\* useState(null) of file
NoFile == "null"

\* handleProcessFile is not running and no file is selected
ProcIdle ==
    /\ file = NoFile
    /\ initializing = FALSE
    /\ loading = FALSE
    /\ runFile = NoFile
    /\ names = <<>>
    /\ idx = 0
    /\ ppc = "idle"
    /\ v2Response = <<>>
    /\ wire = <<>>
    /\ now = 0

ApiNames == {"api1", "api2"}

\* localStorage.getItem gives null, and a request has no Authorization
NoToken == ""

\* response.data.access_token of Keycloak
TokenPool == {"t1", "t2"}

\* Keycloak answers a token request with status 401, and a token request
\* fails in another way (another status, no access_token, no answer)
Denied == "401"
Unanswered == "failed"

\* the answers to a token request
KeycloakAnswers == TokenPool \cup {Denied, Unanswered}

\* no request is under way and no token is stored
NoRequests ==
    /\ apc = [a \in ApiNames |-> "idle"]
    /\ retryFlag = [a \in ApiNames |-> FALSE]
    /\ refreshes = [a \in ApiNames |-> 0]
    /\ retries = [a \in ApiNames |-> 0]
    /\ tokenPosts = [a \in ApiNames |-> 0]
    /\ inFlight = [a \in ApiNames |-> "request"]
    /\ replies = [a \in ApiNames |-> <<>>]
    /\ outcome = [a \in ApiNames |-> "none"]

AuthIdle ==
    /\ NoRequests
    /\ authRevision = "apiService"
    /\ tokens = [a \in ApiNames |-> NoToken]
    /\ header = [a \in ApiNames |-> NoToken]
    /\ returned = [a \in ApiNames |-> NoToken]

ExtIdle == ExportIdle /\ SplitIdle /\ ProcIdle /\ AuthIdle /\ ServiceIdle

InitRest ==
    /\ ExtIdle
    /\ sdnComparison = <<>>
    /\ results = <<>>
    /\ pc = "fetched"
    /\ activeTab = "combined"
    /\ onlyInResults = <<>>
    /\ exportData = <<>>

InitPos ==
    /\ revision = "dateUtils"
    /\ \E n2 \in 0..MaxLen, n4 \in 0..(MaxLen - 1) :
          /\ v2Data \in RuleDataOfLen(PosItems, n2)
          /\ v4Data \in RuleDataOfLen(PosItems, n4)
    /\ univiusData = NoUnivius
    /\ InitRest

\* three sources holding at most total records together
InitThree(total) ==
    /\ revision = "App"
    /\ \E n2 \in 0..total :
          \E n4 \in 0..(total - n2) :
             \E nu \in 0..(total - n2 - n4) :
                /\ v2Data \in RuleDataOfLen(EntityItems, n2)
                /\ v4Data \in RuleDataOfLen(EntityItems, n4)
                /\ univiusData \in UnivDataOfLen(EntityUnivItems, nu)
    /\ InitRest

InitTri == InitThree(TriTotal)

Init == InitPos \/ InitTri

InitExcl == InitThree(MaxLen)

\* ---------------------------------------------------------------- actions
Reverse(q) == [i \in 1..Len(q) |-> q[Len(q) + 1 - i]]

\* a comparison that reorders the V2 responses in place
CompareAppReordering ==
    /\ pc = "fetched"
    /\ revision = "App"
    /\ ~compareSdnDataRaises(v2Data, v4Data, univiusData)
    /\ sdnComparison' = compareSdnData(v2Data, v4Data, univiusData)
    /\ v2Data' = [v2Data EXCEPT !.responses = Reverse(@)]
    /\ pc' = "compared"
    /\ UNCHANGED <<revision, v4Data, univiusData, results, activeTab,
                   onlyInResults, exportData,
                   extVars>>

\* const sdnComparison = compareSdnData(result.v2, result.v4, result.univius)
CompareApp ==
    /\ pc = "fetched"
    /\ revision = "App"
    /\ ~compareSdnDataRaises(v2Data, v4Data, univiusData)
    /\ sdnComparison' = compareSdnData(v2Data, v4Data, univiusData)
    /\ pc' = "compared"
    /\ UNCHANGED <<revision, v2Data, v4Data, univiusData, results, activeTab,
                   onlyInResults, exportData,
                   extVars>>

\* const sdnComparison = compareSdnData(result.v1_2, result.v2)
ComparePos ==
    /\ pc = "fetched"
    /\ revision = "dateUtils"
    /\ ~compareSdnDataPosRaises(v2Data, v4Data)
    /\ sdnComparison' = compareSdnDataPos(v2Data, v4Data)
    /\ pc' = "compared"
    /\ UNCHANGED <<revision, v2Data, v4Data, univiusData, results, activeTab,
                   onlyInResults, exportData,
                   extVars>>

\* the entry handleProcessFile appends (durations and the unique id left out)
ResultEntry ==
    IF revision = "App"
    THEN [name |-> QueryName, v2 |-> v2Data, v4 |-> v4Data,
          univius |-> univiusData, _sdnComparison |-> sdnComparison]
    ELSE [name |-> QueryName, v2 |-> v2Data, v4 |-> v4Data,
          _sdnComparison |-> sdnComparison]

\* setResults(prevResults => [...prevResults, { name, v2, v4, ... }])
AppendResult ==
    /\ pc = "compared"
    /\ results' = Append(results, ResultEntry)
    /\ pc' = "appended"
    /\ UNCHANGED <<revision, v2Data, v4Data, univiusData, sdnComparison,
                   activeTab, onlyInResults, exportData,
                   extVars>>

\* handleTabChange(event, newValue), src/App.js:695; the Tabs are part of
\* renderResults, which is rendered only when results.length > 0
\* (src/App.js:1242), and the 'Only in' Tab is disabled on empty results
handleTabChange(newValue) ==
    /\ revision = "App"
    /\ Len(results) > 0
    /\ activeTab' = newValue
    /\ onlyInResults' = IF newValue = "onlyIn"
                        THEN SelectSeq(results, HasOnlyIn)
                        ELSE onlyInResults
    /\ UNCHANGED <<revision, v2Data, v4Data, univiusData, sdnComparison,
                   results, pc, exportData,
                   extVars>>

\* exportOnlyInToExcel, src/App.js; with nothing to export it only warns
exportOnlyInToExcel ==
    /\ revision = "App"
    /\ Len(onlyInResults) > 0
    /\ exportData' = OnlyInExportData(onlyInResults)
    /\ UNCHANGED <<revision, v2Data, v4Data, univiusData, sdnComparison,
                   results, pc, activeTab, onlyInResults,
                   extVars>>

Next == CompareApp \/ ComparePos \/ AppendResult

Spec == Init /\ [][Next]_vars

NextExcl ==
    \/ CompareApp
    \/ AppendResult
    \/ \E newValue \in {"combined", "onlyIn"} : handleTabChange(newValue)
    \/ exportOnlyInToExcel

SpecExcl == InitExcl /\ [][NextExcl]_vars

\* ------------------------------------ a call of splitSdnsForExport
\* no name is being processed
BaseIdle ==
    /\ revision = "App"
    /\ v2Data = [hasResponses |-> FALSE, responses |-> <<>>]
    /\ v4Data = [hasResponses |-> FALSE, responses |-> <<>>]
    /\ univiusData = NoUnivius
    /\ sdnComparison = <<>>
    /\ results = <<>>
    /\ pc = "idle"
    /\ activeTab = "combined"
    /\ onlyInResults = <<>>
    /\ exportData = <<>>
    /\ ExportIdle

baseVars == <<revision, v2Data, v4Data, univiusData, sdnComparison, results,
              pc, activeTab, onlyInResults, exportData, exportVars>>

\* the length of the line of a record with a three-character id and a name
\* of n characters
LineLength(n) == 3 + 3 + n + 2

\* names by the length of their line: short, half the limit, one more than
\* half, the limit exactly, one more than the limit; and a name that ends
\* with a space
SplitNames ==
    {"Alice", SpacedName,
     Repeat("x", MAX_CHUNK_SIZE \div 2 - LineLength(0)),
     Repeat("y", MAX_CHUNK_SIZE \div 2 - LineLength(0) + 1),
     Repeat("z", MAX_CHUNK_SIZE - LineLength(0)),
     Repeat("w", MAX_CHUNK_SIZE - LineLength(0) + 1)}

SplitSdns == {[id |-> IdPool[1], name |-> nm] : nm \in SplitNames}

InitSplit ==
    /\ BaseIdle
    /\ ServiceIdle
    /\ \E n \in 0..MaxLen : sdns \in [1..n -> SplitSdns]
    /\ chunks = <<>>
    /\ ProcIdle
    /\ AuthIdle

\* const chunks = splitSdnsForExport(sdns)
SplitCall ==
    /\ chunks = <<>>
    /\ chunks' = splitSdnsForExport(sdns)
    /\ UNCHANGED <<baseVars, serviceVars, sdns, procVars, authVars>>

NextSplit == SplitCall

SpecSplit == InitSplit /\ [][NextSplit]_vars

\* ------------------------------------------------ a call of exportToExcel
\* a name whose line fills a chunk
LongName == Repeat("z", MAX_CHUNK_SIZE - LineLength(0))

ExportItems ==
    {NoRulesItem, RuleItem(IdPool[1], NamePool[1], RefPool[1]),
     RuleItem(IdPool[2], LongName, RefPool[2])}

ExportUnivItems ==
    {UnivItem(IdPool[1], NamePool[1], RefPool[1]),
     UnivItem(IdPool[2], LongName, RefPool[2])}

\* the entry handleProcessFile appends for name
EntryOf(name, v2, v4, univius) ==
    [name |-> name, v2 |-> v2, v4 |-> v4, univius |-> univius,
     _sdnComparison |-> compareSdnData(v2, v4, univius)]

\* an entry processed earlier: two records that fill a chunk each
EarlierEntry ==
    EntryOf("Jane Roe",
            [hasResponses |-> TRUE,
             responses |-> <<RuleItem(IdPool[2], LongName, RefPool[2]),
                             RuleItem(IdPool[2], LongName, RefPool[2])>>],
            [hasResponses |-> FALSE, responses |-> <<>>], NoUnivius)

\* rows built before the loop of exportToExcel yields
CHUNK_SIZE == 100

\* results holds an earlier entry and the entry of QueryName, and
\* handleProcessFile has compared the answers for one more name, all of
\* them empty
InitExport ==
    /\ revision = "App"
    /\ v2Data = [hasResponses |-> FALSE, responses |-> <<>>]
    /\ v4Data = [hasResponses |-> FALSE, responses |-> <<>>]
    /\ univiusData = NoUnivius
    /\ sdnComparison = compareSdnData(v2Data, v4Data, univiusData)
    /\ \E n2 \in 0..MaxLen, n4 \in 0..1, nu \in 0..1 :
          \E v2 \in RuleDataOfLen(ExportItems, n2),
             v4 \in RuleDataOfLen(ExportItems, n4),
             u \in UnivDataOfLen(ExportUnivItems, nu) :
                results = <<EarlierEntry, EntryOf(QueryName, v2, v4, u)>>
    /\ pc = "compared"
    /\ activeTab = "combined"
    /\ onlyInResults = <<>>
    /\ exportData = <<>>
    /\ ExtIdle

\* exportToExcel, src/App.js:406, up to its await: with no result it only
\* warns; the loop builds the rows of the results of its closure, at most
\* CHUNK_SIZE of them in one pass, and waits for a timer; one call in a
\* behaviour
exportToExcel ==
    /\ Len(results) > 0
    /\ Len(results) <= CHUNK_SIZE
    /\ exportPc = "idle"
    /\ closureResults = <<>>
    /\ closureResults' = results
    /\ pendingRows' = ExportData(results)
    /\ exportPc' = "waiting"
    /\ UNCHANGED <<revision, v2Data, v4Data, univiusData, sdnComparison,
                   results, pc, activeTab, onlyInResults, exportData,
                   splitVars, procVars, authVars, serviceVars>>

\* the timer fires: XLSX.utils.json_to_sheet(exportData) and XLSX.writeFile
\* with the rows built before the await; the call returns and its local
\* array is gone
exportToExcelWrite ==
    /\ exportPc = "waiting"
    /\ exportData' = pendingRows
    /\ pendingRows' = <<>>
    /\ exportPc' = "idle"
    /\ UNCHANGED <<revision, v2Data, v4Data, univiusData, sdnComparison,
                   results, pc, activeTab, onlyInResults, closureResults,
                   splitVars, procVars, authVars, serviceVars>>

NextExport ==
    \/ exportToExcel
    \/ exportToExcelWrite
    \/ AppendResult
    \/ handleTabChange("onlyIn")

SpecExport == InitExport /\ [][NextExport]_vars

\* ------------------------------- handleProcessFile, src/App.js:115
\* the rows of the first sheet of a file, header row first; the file "X"
\* is no workbook
Files == {"A", "B", "X", "Z"}

SheetRows(f) ==
    CASE f = "A" -> <<"Name", "Ann", "", "Ben">>
      [] f = "B" -> <<"Name", "Cy">>
      [] OTHER   -> <<>>

\* reader.onload fires for the file: "Z" can no longer be read
Loads(f) == f # "Z"

\* the file is read and XLSX.read parses it: "X" is no workbook
Readable(f) == f \notin {"X", "Z"}

\* data.slice(1).map(row => row[0]).filter(Boolean)
extractNames(data) == SelectSeq(Tail(data), Truthy)

\* response bodies of a source
Bodies ==
    {[hasResponses |-> TRUE,
      responses |-> <<RuleItem(IdPool[i], NamePool[i], RefPool[i])>>] :
        i \in 1..MaxId}

\* the entry of the loop body; id: `${name}-${Date.now()}-${i}`
ProcEntry(name, v2, v4, t, i) ==
    [name |-> name, v2 |-> v2, v4 |-> v4, univius |-> NoUnivius,
     _sdnComparison |-> compareSdnData(v2, v4, NoUnivius),
     id |-> <<name, t, i>>]

\* the entry of the inner catch; id: `${name}-error-${Date.now()}-${i}`
ErrorEntry(name, t, i) ==
    [name |-> name, error |-> "Error", id |-> <<name, "error", t, i>>]

\* starts of handleProcessFile in one session
MaxRuns == 2

\* setFile(e.target.files[0])
handleFileChange(f) ==
    /\ file' = f
    /\ UNCHANGED <<baseVars, serviceVars, splitVars, authVars, initializing, loading, runFile,
                   names, idx, ppc, v2Response, wire, now>>

\* initializeAuth: setInitializing(false)
initializeAuth ==
    /\ initializing
    /\ initializing' = FALSE
    /\ UNCHANGED <<baseVars, serviceVars, splitVars, authVars, file, loading, runFile, names, idx,
                   ppc, v2Response, wire, now>>

\* a start that keeps the results of the run before
handleProcessFileKeeping ==
    /\ file # NoFile /\ ~loading
    /\ ~initializing
    /\ now < MaxRuns
    /\ now' = now + 1
    /\ loading' = TRUE
    /\ runFile' = file
    /\ names' = <<>>
    /\ idx' = 0
    /\ wire' = <<>>
    /\ v2Response' = <<>>
    /\ ppc' = "reading"
    /\ UNCHANGED <<baseVars, serviceVars, splitVars, authVars, file, initializing>>

\* the click on Process (disabled={!file || loading}) up to the first
\* await: setLoading(true); setResults([])
handleProcessFile ==
    /\ file # NoFile /\ ~loading
    /\ ~initializing
    /\ now < MaxRuns
    /\ now' = now + 1
    /\ loading' = TRUE
    /\ results' = <<>>
    /\ runFile' = file
    /\ names' = <<>>
    /\ idx' = 0
    /\ wire' = <<>>
    /\ v2Response' = <<>>
    /\ ppc' = "reading"
    /\ UNCHANGED <<revision, v2Data, v4Data, univiusData, sdnComparison, pc,
                   activeTab, onlyInResults, exportData, exportVars, serviceVars,
                   splitVars, authVars, file,
                   initializing>>

\* const data = await readExcel(file); const names = extractNames(data)
ReadDone ==
    /\ ppc = "reading"
    /\ Readable(runFile)
    /\ names' = extractNames(SheetRows(runFile))
    /\ ppc' = "loop"
    /\ UNCHANGED <<baseVars, serviceVars, splitVars, authVars, file, initializing, loading, runFile,
                   idx, v2Response, wire, now>>

\* reader.onload runs and XLSX.read throws: readExcel rejects, the outer
\* catch, then finally setLoading(false); readExcel sets no reader.onerror,
\* so a file that cannot be read settles nothing
ReadFail ==
    /\ ppc = "reading"
    /\ Loads(runFile)
    /\ ~Readable(runFile)
    /\ loading' = FALSE
    /\ ppc' = "idle"
    /\ UNCHANGED <<baseVars, serviceVars, splitVars, authVars, file, initializing, runFile, names,
                   idx, v2Response, wire, now>>

Event(kind, src, i, data) == [kind |-> kind, src |-> src, i |-> i, data |-> data]

\* processName: v2Response = await api.post(API_ENDPOINTS.v1_2, payload)
IssueV2 ==
    /\ ppc = "loop"
    /\ idx < Len(names)
    /\ wire' = Append(wire, Event("call", "v2", idx, <<>>))
    /\ ppc' = "v2call"
    /\ UNCHANGED <<baseVars, serviceVars, splitVars, authVars, file, initializing, loading, runFile,
                   names, idx, v2Response, now>>

ReturnV2(body) ==
    /\ ppc = "v2call"
    /\ wire' = Append(wire, Event("return", "v2", idx, body))
    /\ v2Response' = body
    /\ ppc' = "v2done"
    /\ UNCHANGED <<baseVars, serviceVars, splitVars, authVars, file, initializing, loading, runFile,
                   names, idx, now>>

\* the second call issued while the first is under way
IssueV4Concurrent ==
    /\ ppc = "v2call"
    /\ wire' = Append(wire, Event("call", "v4", idx, <<>>))
    /\ ppc' = "v4call"
    /\ UNCHANGED <<baseVars, serviceVars, splitVars, authVars, file, initializing, loading, runFile,
                   names, idx, v2Response, now>>

\* processName: v4Response = await api.post(API_ENDPOINTS.v2, payload)
IssueV4 ==
    /\ ppc = "v2done"
    /\ wire' = Append(wire, Event("call", "v4", idx, <<>>))
    /\ ppc' = "v4call"
    /\ UNCHANGED <<baseVars, serviceVars, splitVars, authVars, file, initializing, loading, runFile,
                   names, idx, v2Response, now>>

\* the second call returns: processName returns { v2, v4, name }, the loop
\* body compares and appends (result.univius is undefined)
ReturnV4(body) ==
    /\ ppc = "v4call"
    /\ wire' = Append(wire, Event("return", "v4", idx, body))
    /\ ~compareSdnDataRaises(v2Response, body, NoUnivius)
    /\ results' = Append(results,
                         ProcEntry(names[idx + 1], v2Response, body, now, idx))
    /\ v2Response' = <<>>
    /\ idx' = idx + 1
    /\ ppc' = "loop"
    /\ UNCHANGED <<revision, v2Data, v4Data, univiusData, sdnComparison, pc,
                   activeTab, onlyInResults, exportData, exportVars, serviceVars,
                   splitVars, authVars, file,
                   initializing, loading, runFile, names, now>>

\* a call fails and the failure ends the loop: the outer catch, then
\* finally setLoading(false)
CallFailsAborting ==
    /\ ppc \in {"v2call", "v4call"}
    /\ wire' = Append(wire, Event("fail", IF ppc = "v2call" THEN "v2" ELSE "v4",
                                  idx, <<>>))
    /\ v2Response' = <<>>
    /\ loading' = FALSE
    /\ ppc' = "idle"
    /\ UNCHANGED <<baseVars, serviceVars, splitVars, authVars, file,
                   initializing, runFile, names, idx, now>>

\* a call fails: processName logs and rethrows, the inner catch appends the
\* failed entry
CallFails ==
    /\ ppc \in {"v2call", "v4call"}
    /\ wire' = Append(wire, Event("fail", IF ppc = "v2call" THEN "v2" ELSE "v4",
                                  idx, <<>>))
    /\ results' = Append(results, ErrorEntry(names[idx + 1], now, idx))
    /\ v2Response' = <<>>
    /\ idx' = idx + 1
    /\ ppc' = "loop"
    /\ UNCHANGED <<revision, v2Data, v4Data, univiusData, sdnComparison, pc,
                   activeTab, onlyInResults, exportData, exportVars, serviceVars,
                   splitVars, authVars, file,
                   initializing, loading, runFile, names, now>>

\* the loop ends: finally setLoading(false)
ProcessDone ==
    /\ ppc = "loop"
    /\ idx = Len(names)
    /\ loading' = FALSE
    /\ ppc' = "idle"
    /\ UNCHANGED <<baseVars, serviceVars, splitVars, authVars, file, initializing, runFile, names,
                   idx, v2Response, wire, now>>

InitProc ==
    /\ BaseIdle
    /\ ServiceIdle
    /\ SplitIdle
    /\ AuthIdle
    /\ file = NoFile
    /\ initializing = TRUE
    /\ loading = FALSE
    /\ runFile = NoFile
    /\ names = <<>>
    /\ idx = 0
    /\ ppc = "idle"
    /\ v2Response = <<>>
    /\ wire = <<>>
    /\ now = 0

NextProc ==
    \/ \E f \in Files : handleFileChange(f)
    \/ initializeAuth
    \/ handleProcessFile
    \/ ReadDone
    \/ ReadFail
    \/ IssueV2
    \/ \E body \in Bodies : ReturnV2(body)
    \/ IssueV4
    \/ \E body \in Bodies : ReturnV4(body)
    \/ CallFails
    \/ ProcessDone

SpecProc == InitProc /\ [][NextProc]_vars

\* a step of the run under way: a continuation of an await whose promise
\* has settled, which the event loop runs
RunStep ==
    \/ ReadDone
    \/ ReadFail
    \/ IssueV2
    \/ \E body \in Bodies : ReturnV2(body)
    \/ IssueV4
    \/ \E body \in Bodies : ReturnV4(body)
    \/ CallFails
    \/ ProcessDone

\* the event loop runs every continuation that is ready, and every request
\* is answered or fails
SpecProcLive == SpecProc /\ WF_vars(RunStep)

\* --------------- one request through the interceptors of an axios instance
\* src/services/apiService.js:35 (createAxiosInstance, one instance and
\* one stored token for every API) and src/unnamed/part_000:270 (one
\* instance, api, and one stored token: the slot "api1")
Statuses == {200, 401, 500}

\* what getAccessToken returns for the answer: its access_token, which it
\* has stored; NoToken stands for a throw
TokenOf(ans) == IF ans \in TokenPool THEN ans ELSE NoToken

\* a request passes the request interceptor and is handed to the adapter;
\* it is a token request when the configuration in flight is that of the
\* token request
Posted(a) == IF inFlight[a] = "tokenPost" THEN 1 ELSE 0

\* a caller issues a request on the instance of API a
StartRequest(a) ==
    /\ authRevision = "part_000" => a = "api1"
    /\ apc[a] = "idle"
    /\ retryFlag' = [retryFlag EXCEPT ![a] = FALSE]
    /\ refreshes' = [refreshes EXCEPT ![a] = 0]
    /\ retries' = [retries EXCEPT ![a] = 0]
    /\ tokenPosts' = [tokenPosts EXCEPT ![a] = 0]
    /\ inFlight' = [inFlight EXCEPT ![a] = "request"]
    /\ replies' = [replies EXCEPT ![a] = <<>>]
    /\ outcome' = [outcome EXCEPT ![a] = "pending"]
    /\ apc' = [apc EXCEPT ![a] = "request"]
    /\ header' = [header EXCEPT ![a] = NoToken]
    /\ UNCHANGED <<baseVars, serviceVars, splitVars, procVars, authRevision,
                   tokens, returned>>

\* request interceptor with a stored token: the header is set
RequestWithToken(a) ==
    /\ apc[a] = "request"
    /\ tokens[a] # NoToken
    /\ header' = [header EXCEPT ![a] = tokens[a]]
    /\ tokenPosts' = [tokenPosts EXCEPT ![a] = @ + Posted(a)]
    /\ apc' = [apc EXCEPT ![a] = "sent"]
    /\ UNCHANGED <<baseVars, serviceVars, splitVars, procVars, authRevision,
                   tokens, returned, retryFlag, refreshes, retries, inFlight,
                   replies, outcome>>

\* request interceptor without a stored token: getAccessToken posts the
\* token request with the global axios and the interceptor awaits the
\* answer
RequestWithoutToken(a) ==
    /\ apc[a] = "request"
    /\ tokens[a] = NoToken
    /\ tokenPosts' = [tokenPosts EXCEPT ![a] = @ + 1]
    /\ apc' = [apc EXCEPT ![a] = "acquiring"]
    /\ UNCHANGED <<baseVars, serviceVars, splitVars, procVars, authRevision,
                   tokens, header, returned, retryFlag, refreshes, retries,
                   inFlight, replies, outcome>>

RejectedWith(status) == IF status = 401 THEN "rejected: 401"
                        ELSE "rejected: 500"

\* Keycloak answers the token request of the request interceptor.
\* With a token: getAccessToken stores and returns the access_token and the
\* request is sent with it, whatever the store holds by then.
\* Otherwise getAccessToken throws, store and headers stay as they are, and
\* the rejection of the request interceptor reaches the rejected handler
\* of the response interceptor:
\*   apiService.js: the error carries the response of Keycloak and no
\*     config (lines 244-275), so on status 401 "!originalRequest._retry"
\*     (line 110) throws a TypeError, which is what the caller gets; on
\*     any other failure the handler rejects with the error;
\*   part_000: getAccessToken rethrows the error of axios.post (line 265)
\*     with the config of the token request; on status 401 that config
\*     has no _retry: the handler sets it and goes for a new token, with
\*     the token request as originalRequest; on any other failure the
\*     handler rejects with the error.
RequestAcquiresToken(a, ans) ==
    /\ apc[a] = "acquiring"
    /\ returned' = [returned EXCEPT ![a] = TokenOf(ans)]
    /\ tokens' = [tokens EXCEPT ![a] = IF ans \in TokenPool THEN ans ELSE @]
    /\ IF ans \in TokenPool
       THEN /\ header' = [header EXCEPT ![a] = ans]
            /\ tokenPosts' = [tokenPosts EXCEPT ![a] = @ + Posted(a)]
            /\ apc' = [apc EXCEPT ![a] = "sent"]
            /\ UNCHANGED <<retryFlag, refreshes, inFlight, replies, outcome>>
       ELSE IF ans = Denied /\ authRevision = "part_000"
       THEN /\ replies' = [replies EXCEPT ![a] = Append(@, 401)]
            /\ inFlight' = [inFlight EXCEPT ![a] = "tokenPost"]
            /\ header' = [header EXCEPT ![a] = NoToken]
            /\ retryFlag' = [retryFlag EXCEPT ![a] = TRUE]
            /\ refreshes' = [refreshes EXCEPT ![a] = @ + 1]
            /\ tokenPosts' = [tokenPosts EXCEPT ![a] = @ + 1]
            /\ apc' = [apc EXCEPT ![a] = "refresh"]
            /\ UNCHANGED outcome
       ELSE /\ outcome' = [outcome EXCEPT ![a] =
                             IF ans = Denied THEN "rejected: TypeError"
                             ELSE "rejected: auth"]
            /\ apc' = [apc EXCEPT ![a] = "idle"]
            /\ UNCHANGED <<header, retryFlag, refreshes, tokenPosts, inFlight,
                           replies>>
    /\ UNCHANGED <<baseVars, serviceVars, splitVars, procVars, authRevision,
                   retries>>

\* what the caller's promise resolves with
ResolvedWith(a) == IF inFlight[a] = "tokenPost" THEN "resolved: token answer"
                   ELSE "resolved"

\* a response interceptor that does not look at originalRequest._retry
RespondIgnoringRetry(a, status) ==
    /\ apc[a] = "sent"
    /\ replies' = [replies EXCEPT ![a] = Append(@, status)]
    /\ IF status = 200
       THEN /\ outcome' = [outcome EXCEPT ![a] = ResolvedWith(a)]
            /\ apc' = [apc EXCEPT ![a] = "idle"]
            /\ UNCHANGED <<retryFlag, refreshes, tokenPosts>>
       ELSE IF status = 401
       THEN /\ retryFlag' = [retryFlag EXCEPT ![a] = TRUE]
            /\ refreshes' = [refreshes EXCEPT ![a] = @ + 1]
            /\ tokenPosts' = [tokenPosts EXCEPT ![a] = @ + 1]
            /\ apc' = [apc EXCEPT ![a] = "refresh"]
            /\ UNCHANGED outcome
       ELSE /\ outcome' = [outcome EXCEPT ![a] = RejectedWith(status)]
            /\ apc' = [apc EXCEPT ![a] = "idle"]
            /\ UNCHANGED <<retryFlag, refreshes, tokenPosts>>
    /\ UNCHANGED <<baseVars, serviceVars, splitVars, procVars, authRevision,
                   tokens, header, returned, retries, inFlight>>

\* the response to the request in flight: the response interceptor
\* resolves on success; on "status === 401 && !originalRequest._retry" it
\* sets _retry and calls getAccessToken, which posts a token request; it
\* rejects with the error otherwise
Respond(a, status) ==
    /\ apc[a] = "sent"
    /\ replies' = [replies EXCEPT ![a] = Append(@, status)]
    /\ IF status = 200
       THEN /\ outcome' = [outcome EXCEPT ![a] = ResolvedWith(a)]
            /\ apc' = [apc EXCEPT ![a] = "idle"]
            /\ UNCHANGED <<retryFlag, refreshes, tokenPosts>>
       ELSE IF status = 401 /\ ~retryFlag[a]
       THEN /\ retryFlag' = [retryFlag EXCEPT ![a] = TRUE]
            /\ refreshes' = [refreshes EXCEPT ![a] = @ + 1]
            /\ tokenPosts' = [tokenPosts EXCEPT ![a] = @ + 1]
            /\ apc' = [apc EXCEPT ![a] = "refresh"]
            /\ UNCHANGED outcome
       ELSE /\ outcome' = [outcome EXCEPT ![a] = RejectedWith(status)]
            /\ apc' = [apc EXCEPT ![a] = "idle"]
            /\ UNCHANGED <<retryFlag, refreshes, tokenPosts>>
    /\ UNCHANGED <<baseVars, serviceVars, splitVars, procVars, authRevision,
                   tokens, header, returned, retries, inFlight>>

\* the catch of the response interceptor without
\* localStorage.removeItem
RefreshKeepingToken(a, ans) ==
    /\ apc[a] = "refresh"
    /\ returned' = [returned EXCEPT ![a] = TokenOf(ans)]
    /\ tokens' = [tokens EXCEPT ![a] = IF ans \in TokenPool THEN ans ELSE @]
    /\ header' = [header EXCEPT ![a] = IF ans \in TokenPool THEN ans ELSE @]
    /\ retries' = [retries EXCEPT ![a] = IF ans \in TokenPool THEN @ + 1 ELSE @]
    /\ apc' = [apc EXCEPT ![a] = IF ans \in TokenPool THEN "request" ELSE "idle"]
    /\ outcome' = [outcome EXCEPT ![a] =
                      IF ans \in TokenPool THEN @ ELSE "rejected: auth"]
    /\ UNCHANGED <<baseVars, serviceVars, splitVars, procVars, authRevision,
                   retryFlag, refreshes, tokenPosts, inFlight, replies>>

\* Keycloak answers the token request of the response interceptor
\* (const newToken = await getAccessToken(...)): with a token, stored by
\* getAccessToken, the header of originalRequest is set and originalRequest
\* is issued again through the instance; when getAccessToken throws, the
\* catch removes the stored token and the caller gets the refresh error
Refresh(a, ans) ==
    /\ apc[a] = "refresh"
    /\ returned' = [returned EXCEPT ![a] = TokenOf(ans)]
    /\ tokens' = [tokens EXCEPT ![a] = TokenOf(ans)]
    /\ header' = [header EXCEPT ![a] = IF ans \in TokenPool THEN ans ELSE @]
    /\ retries' = [retries EXCEPT ![a] = IF ans \in TokenPool THEN @ + 1 ELSE @]
    /\ apc' = [apc EXCEPT ![a] = IF ans \in TokenPool THEN "request" ELSE "idle"]
    /\ outcome' = [outcome EXCEPT ![a] =
                      IF ans \in TokenPool THEN @ ELSE "rejected: auth"]
    /\ UNCHANGED <<baseVars, serviceVars, splitVars, procVars, authRevision,
                   retryFlag, refreshes, tokenPosts, inFlight, replies>>

\* apiUtils.clearAuthToken(apiName), apiService.js:289:
\* localStorage.removeItem
clearAuthToken(a) ==
    /\ authRevision = "apiService"
    /\ tokens[a] # NoToken
    /\ tokens' = [tokens EXCEPT ![a] = NoToken]
    /\ UNCHANGED <<baseVars, serviceVars, splitVars, procVars, authRevision,
                   apc, header, returned, retryFlag, refreshes, retries,
                   tokenPosts, inFlight, replies, outcome>>

\* Keycloak answers the token request of
\* apiUtils.testKeycloakConnection(apiName), apiService.js:305:
\* getAccessToken stores and returns the access_token, or throws and the
\* catch returns { success: false }
testKeycloakConnection(a, ans) ==
    /\ authRevision = "apiService"
    /\ returned' = [returned EXCEPT ![a] = TokenOf(ans)]
    /\ tokens' = [tokens EXCEPT ![a] = IF ans \in TokenPool THEN ans ELSE @]
    /\ <<returned', tokens'>> # <<returned, tokens>>
    /\ UNCHANGED <<baseVars, serviceVars, splitVars, procVars, authRevision,
                   apc, header, retryFlag, refreshes, retries, tokenPosts,
                   inFlight, replies, outcome>>

InitAuth ==
    /\ BaseIdle
    /\ ServiceIdle
    /\ SplitIdle
    /\ ProcIdle
    /\ NoRequests
    /\ authRevision \in {"apiService", "part_000"}
    /\ tokens \in [ApiNames -> {NoToken, "t0"}]
    /\ authRevision = "part_000" => tokens["api2"] = NoToken
    /\ header = [a \in ApiNames |-> NoToken]
    /\ returned = [a \in ApiNames |-> NoToken]

\* the steps of a request through the interceptors: requests on the
\* instances, the answers of the endpoints and of Keycloak
NextInterceptors ==
    \/ \E a \in ApiNames : StartRequest(a)
    \/ \E a \in ApiNames : RequestWithToken(a)
    \/ \E a \in ApiNames : RequestWithoutToken(a)
    \/ \E a \in ApiNames, ans \in KeycloakAnswers : RequestAcquiresToken(a, ans)
    \/ \E a \in ApiNames, status \in Statuses : Respond(a, status)
    \/ \E a \in ApiNames, ans \in KeycloakAnswers : Refresh(a, ans)

\* the service with all the functions it exports that write the token
\* store, called at any moment
NextAuth ==
    \/ NextInterceptors
    \/ \E a \in ApiNames : clearAuthToken(a)
    \/ \E a \in ApiNames, ans \in KeycloakAnswers : testKeycloakConnection(a, ans)

SpecAuth == InitAuth /\ [][NextAuth]_vars

\* the service as src/App.js drives it: App.js calls processName, whose
\* requests pass the interceptors, and neither clearAuthToken nor the
\* testKeycloakConnection of apiUtils (the testKeycloakConnection of
\* App.js:1098 is a function of its own that stores nothing), so the
\* stored token is written by the getAccessToken of the interceptors and
\* removed by the catch of the response interceptor only
SpecInterceptors == InitAuth /\ [][NextInterceptors]_vars

\* ------------------------------------------- settings and updateConfig
AltBaseUrl == "https://screening.example.org"

\* the settings the dialog can save
SettingsPool ==
    {[DEFAULT_CONFIG EXCEPT !.apiBaseUrl = u, !.keycloakRealm = r,
                            !.keycloakPassword = p, !.apiEndpointV2 = e] :
        u \in {DEFAULT_CONFIG.apiBaseUrl, AltBaseUrl},
        r \in {DEFAULT_CONFIG.keycloakRealm, "Staging"},
        p \in {DEFAULT_CONFIG.keycloakPassword, "s3cret"},
        e \in {DEFAULT_CONFIG.apiEndpointV2, "v3"}}

\* updateConfig(newConfig): the merge and the two new axios instances
updateConfig(newConfig) ==
    /\ prevConfig' = svcConfig
    /\ newConfigArg' = newConfig
    /\ svcConfig' = MergedConfig(svcConfig, newConfig)
    /\ apiInstances' = Instances(svcConfig')
    /\ sentTo' = [a \in ApiNames |-> EmptyObject]
    /\ tokenSent' = [a \in ApiNames |-> EmptyObject]

\* the module is loaded, App is mounted on the settings c and its effect
\* on [config] has run; with saved settings the state is the object
\* JSON.parse made, without it is DEFAULT_CONFIG
Mounted(c) ==
    /\ appConfig = c
    /\ configIsDefaults \in (IF c = DEFAULT_CONFIG THEN BOOLEAN ELSE {FALSE})
    /\ prevConfig = MergedConfig(ServiceDefaults, ServiceDefaults)
    /\ newConfigArg = EffectArgument(c)
    /\ svcConfig = MergedConfig(prevConfig, newConfigArg)
    /\ apiInstances = Instances(svcConfig)
    /\ NothingSent

\* setConfig(c) with an object that is not the state (Object.is), and the
\* effect on [config] of the render that follows
setConfig(c) ==
    /\ appConfig' = c
    /\ updateConfig(EffectArgument(c))
    /\ UNCHANGED <<baseVars, bothVars, splitVars, procVars, authVars>>

\* the fields of the settings dialog and the values typed into them
FieldValues ==
    [apiBaseUrl       |-> {DEFAULT_CONFIG.apiBaseUrl, AltBaseUrl},
     keycloakRealm    |-> {DEFAULT_CONFIG.keycloakRealm, "Staging"},
     keycloakPassword |-> {DEFAULT_CONFIG.keycloakPassword, "s3cret"},
     apiEndpointV2    |-> {DEFAULT_CONFIG.apiEndpointV2, "v3"}]

\* handleConfigChange(field, value): setConfig(prev => ({...prev,
\* [field]: value})), a new object also when the value is the old one
handleConfigChange(field, value) ==
    /\ setConfig([appConfig EXCEPT ![field] = value])
    /\ configIsDefaults' = FALSE

\* handleResetSettings, confirmed: setConfig(DEFAULT_CONFIG); when the
\* state is that object already, React renders nothing and no effect runs
handleResetSettings ==
    /\ ~configIsDefaults
    /\ setConfig(DEFAULT_CONFIG)
    /\ configIsDefaults' = TRUE

\* apiService.processName(name, apiName) up to api.post
ScreeningRequest(a) ==
    /\ apiInstances' =
         IF a = "api2"
         THEN [apiInstances EXCEPT ![a].baseURL = svcConfig.api2.url]
         ELSE apiInstances
    /\ sentTo' = [sentTo EXCEPT ![a] = [url |-> apiInstances'[a].baseURL]]
    /\ sentTo'[a] # sentTo[a]
    /\ UNCHANGED <<baseVars, bothVars, splitVars, procVars, authVars, appConfig,
                   configIsDefaults,
                   svcConfig, prevConfig, newConfigArg, tokenSent>>

\* getAccessToken(apiName) up to axios.post
TokenRequest(a) ==
    /\ tokenSent' = [tokenSent EXCEPT ![a] = TokenRequestOf(svcConfig, a)]
    /\ tokenSent'[a] # tokenSent[a]
    /\ UNCHANGED <<baseVars, bothVars, splitVars, procVars, authVars, appConfig,
                   configIsDefaults,
                   svcConfig, apiInstances, prevConfig, newConfigArg, sentTo>>

InitSettings ==
    /\ BaseIdle
    /\ SplitIdle
    /\ ProcIdle
    /\ AuthIdle
    /\ BothIdle
    /\ \E c \in SettingsPool : Mounted(c)

NextSettings ==
    \/ \E field \in DOMAIN FieldValues :
          \E value \in FieldValues[field] : handleConfigChange(field, value)
    \/ handleResetSettings
    \/ \E a \in ApiNames : ScreeningRequest(a)
    \/ \E a \in ApiNames : TokenRequest(a)

SpecSettings == InitSettings /\ [][NextSettings]_vars

\* what a caller can name of one API in newConfig
PartialApis ==
    {EmptyObject,
     [url |-> AltBaseUrl \o "/v9"],
     [url |-> ServiceDefaults.api1.url],
     [keycloak |-> EmptyObject],
     [keycloak |-> [realm |-> "Staging"]],
     [keycloak |-> [realm |-> "ScreeningApp", password |-> "s3cret"]],
     [url |-> AltBaseUrl \o "/v9",
      keycloak |-> [url |-> "https://sso.example.org",
                    username |-> "auditor"]]}

OtherPartialApis ==
    {EmptyObject,
     [url |-> AltBaseUrl \o "/v2"],
     [keycloak |-> [clientId |-> "matcher"]]}

\* the arguments of updateConfig: api1 / api2 absent or partly given, and
\* possibly a key that is neither
NewConfigs ==
    {Spread(Spread(x, y), z) :
        x \in {EmptyObject} \cup {[api1 |-> q] : q \in PartialApis},
        y \in {EmptyObject} \cup {[api2 |-> q] : q \in OtherPartialApis},
        z \in {EmptyObject, [apiBaseUrl |-> AltBaseUrl]}}

\* a call updateConfig(newConfig) of another module
UpdateConfigCall(newConfig) ==
    /\ updateConfig(newConfig)
    /\ UNCHANGED <<baseVars, bothVars, splitVars, procVars, authVars, appConfig,
                   configIsDefaults>>

\* updateConfig(apiUtils.getConfig())
UpdateWithCurrent ==
    /\ updateConfig(Spread(EmptyObject, svcConfig))
    /\ UNCHANGED <<baseVars, bothVars, splitVars, procVars, authVars, appConfig,
                   configIsDefaults>>

InitConfig ==
    /\ BaseIdle
    /\ SplitIdle
    /\ ProcIdle
    /\ AuthIdle
    /\ BothIdle
    /\ Mounted(DEFAULT_CONFIG)

NextConfig ==
    \/ \E nc \in NewConfigs : UpdateConfigCall(nc)
    \/ UpdateWithCurrent

SpecConfig == InitConfig /\ [][NextConfig]_vars


\* ======================================================== properties
\* vocabulary of the properties, stated on the inputs and not on the
\* working sets of the code
Compared == pc \in {"compared", "appended"}

IdValues == Ids \cup {"", Undefined}

\* the raw id of every element of a source, in input order
RuleIdSeq(data) == MapSeq(Responses(data), SdnidOf)
UnivIdSeq(u) == MapSeq(UnivArray(u), LAMBDA it : it.sdnId)

\* 1-based index of the first occurrence of id in ids, 0 when it has none
FirstPos(ids, id) ==
    IF SeqHas(ids, id)
    THEN CHOOSE i \in 1..Len(ids) :
             ids[i] = id /\ \A j \in 1..(i - 1) : ids[j] # id
    ELSE 0

\* how many entries of a result list carry id
CountIn(list, id) == Cardinality({i \in 1..Len(list) : list[i].id = id})

InV2(id)      == SeqHas(RuleIdSeq(v2Data), id)
InV4(id)      == SeqHas(RuleIdSeq(v4Data), id)
InUnivius(id) == SeqHas(UnivIdSeq(univiusData), id)

SourcesWith(id) ==
    (IF InV2(id) THEN 1 ELSE 0) + (IF InV4(id) THEN 1 ELSE 0)
    + (IF InUnivius(id) THEN 1 ELSE 0)

\* the common list of the returned value; the three-source value has none
CommonList == IF revision = "dateUtils" THEN sdnComparison.inBoth ELSE <<>>

OnlyInUniviusList ==
    IF revision = "App" THEN sdnComparison.onlyInUnivius ELSE <<>>

\* no truthy id occurs twice in the source
NoRepeatedIds(ids) ==
    \A i, j \in 1..Len(ids) : (i < j /\ Truthy(ids[i])) => ids[i] # ids[j]

\* C1: partition - every non-empty id occurring in at least one source is
\* in exactly one of the output lists (an only-in list or the common list),
\* exactly once.
C1_Partition ==
    Compared =>
        \A id \in Ids :
            SourcesWith(id) >= 1 =>
                CountIn(sdnComparison.onlyInV2, id)
                + CountIn(sdnComparison.onlyInV4, id)
                + CountIn(OnlyInUniviusList, id)
                + CountIn(CommonList, id) = 1

\* C2: with three sources an id is in the only-in list of a source exactly
\* when it is non-empty, occurs in that source and occurs in neither of the
\* other two (and then it is listed once); so no id is exclusive to two
\* sources.
C2_ExclusiveIff ==
    (Compared /\ revision = "App") =>
        /\ \A id \in IdValues :
            /\ CountIn(sdnComparison.onlyInV2, id) =
                 (IF Truthy(id) /\ InV2(id) /\ ~InV4(id) /\ ~InUnivius(id)
                  THEN 1 ELSE 0)
            /\ CountIn(sdnComparison.onlyInV4, id) =
                 (IF Truthy(id) /\ InV4(id) /\ ~InV2(id) /\ ~InUnivius(id)
                  THEN 1 ELSE 0)
            /\ CountIn(sdnComparison.onlyInUnivius, id) =
                 (IF Truthy(id) /\ InUnivius(id) /\ ~InV2(id) /\ ~InV4(id)
                  THEN 1 ELSE 0)
        /\ \A id \in IdValues :
              CountIn(sdnComparison.onlyInV2, id)
              + CountIn(sdnComparison.onlyInV4, id)
              + CountIn(sdnComparison.onlyInUnivius, id) <= 1

\* C2 witness: the comparison has run on three sources where one id is
\* exclusive to V2 and another id of V2 is shared with Univius only.
C2_Witness ==
    /\ pc = "compared" /\ revision = "App"
    /\ Len(sdnComparison.onlyInV2) = 1
    /\ \E id \in Ids : InV2(id) /\ InUnivius(id) /\ ~InV4(id)

\* C3: an id occurring in at least two sources is reported exactly once in
\* a common list, with its rank (first position) in every source that
\* contains it.
C3_CommonOnceWithRanks ==
    Compared =>
        \A id \in Ids :
            SourcesWith(id) >= 2 =>
                /\ CountIn(CommonList, id) = 1
                /\ \A i \in 1..Len(CommonList) :
                      CommonList[i].id = id =>
                          /\ CommonList[i].v2Position
                               = FirstPos(RuleIdSeq(v2Data), id)
                          /\ CommonList[i].v4Position
                               = FirstPos(RuleIdSeq(v4Data), id)

\* every entry of the list has a non-empty id
AllTruthyIds(list) == \A i \in 1..Len(list) : Truthy(list[i].id)

\* C4: a record with an empty or missing id never appears in an only-in or
\* common list, in compareSdnData, in the exclusivity filter of
\* exportToExcel (where a missing id reads 'N/A'), in the filter of
\* handleTabChange and exportOnlyInToExcel, and hence not in onlyInResults
\* for that reason alone nor in the exported rows.
C4_MissingIdNeverListed ==
    /\ Compared =>
          /\ AllTruthyIds(sdnComparison.onlyInV2)
          /\ AllTruthyIds(sdnComparison.onlyInV4)
          /\ AllTruthyIds(OnlyInUniviusList)
          /\ AllTruthyIds(CommonList)
    /\ \A k \in 1..Len(results) :
          /\ \A i \in 1..Len(ExportExclusive(results[k]).onlyInV2) :
                ExportExclusive(results[k]).onlyInV2[i].id # NA
          /\ \A i \in 1..Len(ExportExclusive(results[k]).onlyInV4) :
                ExportExclusive(results[k]).onlyInV4[i].id # NA
          /\ \A i \in 1..Len(ExportExclusive(results[k]).onlyInUnivius) :
                ExportExclusive(results[k]).onlyInUnivius[i].id # NA
          /\ \A i \in 1..Len(TabExclusive(results[k]).onlyInV2) :
                Truthy(SdnidOf(TabExclusive(results[k]).onlyInV2[i]))
          /\ \A i \in 1..Len(TabExclusive(results[k]).onlyInV4) :
                Truthy(SdnidOf(TabExclusive(results[k]).onlyInV4[i]))
    /\ \A k \in 1..Len(onlyInResults) :
          \E id \in Ids :
             \/ /\ SeqHas(RuleIdSeq(onlyInResults[k].v2), id)
                /\ ~SeqHas(RuleIdSeq(onlyInResults[k].v4), id)
             \/ /\ SeqHas(RuleIdSeq(onlyInResults[k].v4), id)
                /\ ~SeqHas(RuleIdSeq(onlyInResults[k].v2), id)
    /\ \A r \in 1..Len(exportData) :
          /\ exportData[r].OnlyInV2 # <<>> => exportData[r].OnlyInV2[1] # NA
          /\ exportData[r].OnlyInV4 # <<>> => exportData[r].OnlyInV4[1] # NA

\* name and reference compareSdnData reports for the item at position p
NameAt(data, p) == OrElse(SdnnameOf(Responses(data)[p]), NA)
ReferenceAt(data, p) == OrElse(RefOf(Responses(data)[p]), "")

\* C5: when a source repeats an id, the rank, name and reference reported
\* for the id are those of its first occurrence in that source, for the
\* first source (v2Position, name, reference of onlyInV2 and inBoth) and
\* for the second (v4Position of inBoth and onlyInV4, name and reference
\* of onlyInV4).
C5_FirstOccurrenceWins ==
    (Compared /\ revision = "dateUtils") =>
        /\ \A L \in {sdnComparison.onlyInV2, sdnComparison.inBoth} :
              \A i \in 1..Len(L) :
                 LET p == FirstPos(RuleIdSeq(v2Data), L[i].id)
                 IN  /\ L[i].v2Position = p
                     /\ L[i].name = NameAt(v2Data, p)
                     /\ L[i].reference = ReferenceAt(v2Data, p)
        /\ \A i \in 1..Len(sdnComparison.inBoth) :
              sdnComparison.inBoth[i].v4Position
                 = FirstPos(RuleIdSeq(v4Data), sdnComparison.inBoth[i].id)
        /\ \A i \in 1..Len(sdnComparison.onlyInV4) :
              LET e == sdnComparison.onlyInV4[i]
                  p == FirstPos(RuleIdSeq(v4Data), e.id)
              IN  /\ e.v4Position = p
                  /\ e.name = NameAt(v4Data, p)
                  /\ e.reference = ReferenceAt(v4Data, p)

\* C6: for two sources without repeated ids, every entry of the common
\* list carries for each source the 1-based index of its id in that
\* source's input sequence, never null.
C6_CommonRanksAreIndices ==
    (Compared /\ revision = "dateUtils"
       /\ NoRepeatedIds(RuleIdSeq(v2Data))
       /\ NoRepeatedIds(RuleIdSeq(v4Data))) =>
        \A i \in 1..Len(sdnComparison.inBoth) :
            LET e == sdnComparison.inBoth[i]
            IN  /\ e.v2Position # Null /\ e.v4Position # Null
                /\ e.v2Position \in 1..Len(RuleIdSeq(v2Data))
                /\ e.v4Position \in 1..Len(RuleIdSeq(v4Data))
                /\ RuleIdSeq(v2Data)[e.v2Position] = e.id
                /\ RuleIdSeq(v4Data)[e.v4Position] = e.id

\* C6 witness: the same two ids in opposite orders give ranks {1,2}, {2,1}.
C6_Witness ==
    /\ pc = "compared" /\ revision = "dateUtils"
    /\ RuleIdSeq(v2Data) = <<IdPool[1], IdPool[2]>>
    /\ RuleIdSeq(v4Data) = <<IdPool[2], IdPool[1]>>
    /\ Len(sdnComparison.inBoth) = 2
    /\ sdnComparison.inBoth[1].id = IdPool[1]
    /\ sdnComparison.inBoth[1].v2Position = 1
    /\ sdnComparison.inBoth[1].v4Position = 2
    /\ sdnComparison.inBoth[2].id = IdPool[2]
    /\ sdnComparison.inBoth[2].v2Position = 2
    /\ sdnComparison.inBoth[2].v4Position = 1

\* C7: the common list is in strictly ascending order of the rank in the
\* first source, for every input.
C7_CommonAscendingPrimaryRank ==
    (Compared /\ revision = "dateUtils") =>
        \A i, j \in 1..Len(sdnComparison.inBoth) :
            i < j => sdnComparison.inBoth[i].v2Position
                       < sdnComparison.inBoth[j].v2Position

\* the ids of list keep the order of their first appearance in ids
KeepsFirstAppearanceOrder(list, ids) ==
    /\ \A i \in 1..Len(list) : FirstPos(ids, list[i].id) >= 1
    /\ \A i, j \in 1..Len(list) :
          i < j => FirstPos(ids, list[i].id) < FirstPos(ids, list[j].id)

\* C8: every only-in list keeps its ids in the relative order of their
\* first appearance in the input sequence of its own source.
C8_OnlyInKeepsSourceOrder ==
    Compared =>
        /\ KeepsFirstAppearanceOrder(sdnComparison.onlyInV2,
                                     RuleIdSeq(v2Data))
        /\ KeepsFirstAppearanceOrder(sdnComparison.onlyInV4,
                                     RuleIdSeq(v4Data))
        /\ KeepsFirstAppearanceOrder(OnlyInUniviusList,
                                     UnivIdSeq(univiusData))

\* C8 witness: the first source lists two exclusive ids and repeats the
\* first of them after the second.
C8_Witness ==
    /\ pc = "compared" /\ revision = "dateUtils"
    /\ RuleIdSeq(v2Data) = <<IdPool[1], IdPool[2], IdPool[1]>>
    /\ Len(sdnComparison.onlyInV2) = 2
    /\ sdnComparison.onlyInV2[1].id = IdPool[1]

\* C10: the call of compareSdnData changes neither its inputs nor any
\* state outside the call; only the returned value is new.
C10_CompareLeavesInputs ==
    [][(pc = "fetched" /\ pc' = "compared") =>
          /\ v2Data' = v2Data
          /\ v4Data' = v4Data
          /\ univiusData' = univiusData
          /\ results' = results
          /\ onlyInResults' = onlyInResults
          /\ activeTab' = activeTab
          /\ exportData' = exportData]_vars

\* C10 witness: the comparison has run on a V2 response of two different
\* records, whose order a mutation would show.
C10_Witness ==
    /\ pc = "compared" /\ revision = "App"
    /\ Len(Responses(v2Data)) = 2
    /\ Responses(v2Data)[1] # Responses(v2Data)[2]
    /\ Len(sdnComparison.onlyInV2) >= 1

\* a source that is missing (no responses array) or has no record
SourceEmpty(data) == Responses(data) = <<>>

UniviusEmpty == UnivArray(univiusData) = <<>>

SomeSourceEmpty ==
    \/ SourceEmpty(v2Data)
    \/ SourceEmpty(v4Data)
    \/ revision = "App" /\ UniviusEmpty

\* the comparison raises on the inputs of this state
CompareRaises ==
    IF revision = "App"
    THEN compareSdnDataRaises(v2Data, v4Data, univiusData)
    ELSE compareSdnDataPosRaises(v2Data, v4Data)

\* C11: a source that is missing or empty is treated as an empty sequence
\* and nothing is raised: its only-in list is empty, with two sources the
\* common list is empty, and every distinct non-empty id of the remaining
\* sources is listed once as exclusive exactly when no other source has it.
C11_MissingSourceIsEmpty ==
    /\ (pc = "fetched" /\ SomeSourceEmpty) => ~CompareRaises
    /\ (Compared /\ SomeSourceEmpty) =>
          /\ SourceEmpty(v2Data) => sdnComparison.onlyInV2 = <<>>
          /\ SourceEmpty(v4Data) => sdnComparison.onlyInV4 = <<>>
          /\ UniviusEmpty => OnlyInUniviusList = <<>>
          /\ revision = "dateUtils" => sdnComparison.inBoth = <<>>
          /\ \A id \in IdValues :
                /\ CountIn(sdnComparison.onlyInV2, id) =
                     (IF Truthy(id) /\ InV2(id) /\ ~InV4(id)
                         /\ ~InUnivius(id) THEN 1 ELSE 0)
                /\ CountIn(sdnComparison.onlyInV4, id) =
                     (IF Truthy(id) /\ InV4(id) /\ ~InV2(id)
                         /\ ~InUnivius(id) THEN 1 ELSE 0)
                /\ CountIn(OnlyInUniviusList, id) =
                     (IF Truthy(id) /\ InUnivius(id) /\ ~InV2(id)
                         /\ ~InV4(id) THEN 1 ELSE 0)

\* C11 witness: the two-source comparison has run without a second source
\* on a first source of two different ids.
C11_Witness ==
    /\ pc = "compared" /\ revision = "dateUtils"
    /\ ~v4Data.hasResponses
    /\ Len(sdnComparison.onlyInV2) = 2

\* how many of the sources of the call are there at all
SourcesGiven ==
    (IF v2Data.hasResponses THEN 1 ELSE 0)
    + (IF v4Data.hasResponses THEN 1 ELSE 0)
    + (IF univiusData.isArray THEN 1 ELSE 0)

\* C13: a comparison given fewer than two sources signals the contract
\* violation "insufficient sources", so it never returns a value; given two
\* or three sources it signals no error.
C13_InsufficientSourcesSignalled ==
    /\ (pc = "fetched" /\ SourcesGiven >= 2) => ~CompareRaises
    /\ Compared => SourcesGiven >= 2

\* the names, 'N/A' for a missing one, of the records of data that carry id
NamesOfId(data, id) ==
    {OrElse(SdnnameOf(Responses(data)[i]), NA) :
        i \in {j \in 1..Len(Responses(data)) :
                  SdnidOf(Responses(data)[j]) = id}}

\* every entry of list has a truthy id that a record of data with
\* rulesDetails carries, and the name of one of these records
EntriesFromRecords(list, data) ==
    \A i \in 1..Len(list) :
        /\ Truthy(list[i].id)
        /\ list[i].name \in NamesOfId(data, list[i].id)

\* C14: compareSdnData never raises on absent or malformed records: a
\* record without rulesDetails or without sdnid contributes no id, a
\* record without sdnname is reported with the name 'N/A', and the call
\* completes normally.
C14_NeverRaisesOnMalformed ==
    /\ pc = "fetched" => ~CompareRaises
    /\ Compared =>
          /\ EntriesFromRecords(sdnComparison.onlyInV2, v2Data)
          /\ EntriesFromRecords(sdnComparison.onlyInV4, v4Data)
          /\ EntriesFromRecords(CommonList, v2Data)

\* C14 witness: the comparison has run on a first source holding a record
\* without rulesDetails, a record with an empty id and a record with an id
\* but no name, and lists the last with the name 'N/A'.
C14_Witness ==
    /\ pc = "compared" /\ revision = "dateUtils"
    /\ Responses(v2Data) = <<NoRulesItem, RuleItem("", Undefined, Undefined),
                             RuleItem(IdPool[1], Undefined, Undefined)>>
    /\ Len(sdnComparison.onlyInV2) = 1
    /\ sdnComparison.onlyInV2[1].name = NA

\* the lines of a text, without their terminators
LinesOf(t) ==
    LET F[i \in 0..Len(t)] ==
            IF i = 0 THEN [lines |-> <<>>, cur |-> ""]
            ELSE IF t[i] = CRLF
                 THEN [lines |-> Append(F[i - 1].lines, F[i - 1].cur),
                       cur   |-> ""]
                 ELSE [lines |-> F[i - 1].lines,
                       cur   |-> F[i - 1].cur \o t[i]]
    IN  IF t = <<>> THEN <<>>
        ELSE IF t[Len(t)] = CRLF THEN F[Len(t)].lines
        ELSE Append(F[Len(t)].lines, F[Len(t)].cur)

\* the lines of the chunks, chunk after chunk
RECURSIVE ChunkLines(_)
ChunkLines(cs) ==
    IF cs = <<>> THEN <<>>
    ELSE LinesOf(Head(cs).content) \o ChunkLines(Tail(cs))

\* the line of every record, in input order
RecordLines(list) ==
    [i \in 1..Len(list) |-> list[i].id \o " - " \o list[i].name]

SplitDone == chunks # <<>>

\* C15: for a non-empty list of records every record's line is in exactly
\* one chunk and in one piece, and the lines of the chunks, chunk after
\* chunk, are exactly the lines of the records in their order.
C15_ChunksReproduceLines ==
    (SplitDone /\ sdns # <<>>) =>
        /\ Join(Chunking(sdns)) = [i \in 1..Len(sdns) |-> SdnText(sdns[i])]
        /\ ChunkLines(chunks) = RecordLines(sdns)

\* the length of all lines of a chunk, terminators included
ChunkLength(chunkLines) == TextLength(Join(chunkLines))

\* C16: no chunk is longer than MAX_CHUNK_SIZE counting its lines with
\* their terminators, unless it holds one record whose own line is longer,
\* which stands whole and alone; and a record opens a new chunk only when
\* it does not fit into the current one.
C16_ChunkWithinLimitGreedy ==
    (SplitDone /\ sdns # <<>>) =>
        LET cl == Chunking(sdns)
        IN  /\ Len(chunks) = Len(cl)
            /\ \A k \in 1..Len(cl) :
                  /\ Len(cl[k]) >= 1
                  /\ ChunkLength(cl[k]) <= MAX_CHUNK_SIZE \/ Len(cl[k]) = 1
                  /\ TextLength(chunks[k].content) <= ChunkLength(cl[k])
            /\ \A k \in 2..Len(cl) :
                  ChunkLength(cl[k - 1]) + TextLength(cl[k][1])
                     > MAX_CHUNK_SIZE

\* C16 witness: two records whose lines fill a chunk to the limit exactly
\* share it, and a record longer than the limit follows alone.
C16_Witness ==
    /\ SplitDone
    /\ Len(sdns) = 3
    /\ Len(chunks) = 2
    /\ ChunkLength(Chunking(sdns)[1]) = MAX_CHUNK_SIZE
    /\ ChunkLength(Chunking(sdns)[2]) > MAX_CHUNK_SIZE

\* the largest chunk count among the six columns of a result, at least one
RowCount(result) == MaxChunks(ExportChunks(result))

\* the index in exportData of the first row of the j-th result of the
\* call
RECURSIVE FirstRow(_)
FirstRow(j) ==
    IF j = 1 THEN 1
    ELSE FirstRow(j - 1) + RowCount(closureResults[j - 1])

\* a call of exportToExcel has written its sheet
Exported == exportPc = "idle" /\ closureResults # <<>>

\* every result has as many rows as its largest chunk count, and its first
\* row carries its name
RowsPerResult ==
    /\ Len(exportData) = FirstRow(Len(closureResults)) - 1
                           + RowCount(closureResults[Len(closureResults)])
    /\ \A j \in 1..Len(closureResults) :
          /\ RowCount(closureResults[j]) >= 1
          /\ exportData[FirstRow(j)].Name = closureResults[j].name

\* C17 as claimed: exportToExcel emits for every result as many rows as the
\* largest chunk count among its columns (at least one); the first row
\* carries the query name, every later row carries a blank name.
C17_LaterRowsBlankName ==
    Exported =>
        /\ RowsPerResult
        /\ \A j \in 1..Len(closureResults) :
              \A k \in 2..RowCount(closureResults[j]) :
                 exportData[FirstRow(j) + k - 1].Name = ""

\* C17 amended: the same row count and first row; every later row of a
\* result carries in its Name cell the continuation marker "(cont.) "
\* followed by the query name.
C17_LaterRowsMarkedName ==
    Exported =>
        /\ RowsPerResult
        /\ \A j \in 1..Len(closureResults) :
              \A k \in 2..RowCount(closureResults[j]) :
                 exportData[FirstRow(j) + k - 1].Name
                    = ContMarker \o closureResults[j].name

\* C17 witness: the export has run on two results of which the second
\* needs three rows for its V2 column.
C17_Witness ==
    /\ Exported
    /\ Len(closureResults) = 2
    /\ RowCount(closureResults[2]) = 3
    /\ Len(exportData) = 5
    /\ exportData[5].Name = ContMarker \o QueryName

\* the sheet was written from the two results of the call after a third
\* result was appended and the only-in tab was opened
C17_WitnessInterleaved ==
    /\ Exported
    /\ Len(closureResults) = 2
    /\ Len(results) = 3
    /\ activeTab = "onlyIn"
    /\ Len(exportData) = FirstRow(2) - 1 + RowCount(closureResults[2])

\* positions of wire
Wire == 1..Len(wire)

IsCall(p) == wire[p].kind = "call"

\* the call at position c has returned or failed before position p
OutcomeBefore(c, p) ==
    \E r \in Wire :
        /\ c < r /\ r < p
        /\ wire[r].kind \in {"return", "fail"}
        /\ wire[r].src = wire[c].src /\ wire[r].i = wire[c].i

\* C18: names are processed strictly one after the other: a source call is
\* issued only when every earlier call has returned or failed, never for a
\* name before the calls of the names before it, and the second source of a
\* name is called only after its first source has returned.
C18_CallsStrictlySequential ==
    \A p \in Wire :
        IsCall(p) =>
            /\ \A c \in Wire : (c < p /\ IsCall(c)) => OutcomeBefore(c, p)
            /\ \A c \in Wire : c < p => wire[c].i <= wire[p].i
            /\ wire[p].src = "v4" =>
                  \E r \in Wire :
                      /\ r < p
                      /\ wire[r] = Event("return", "v2", wire[p].i,
                                         wire[r].data)

\* C18 witness: both sources were called for two names of one file and all
\* four calls returned.
C18_Witness ==
    /\ Len(wire) = 8
    /\ idx = 2
    /\ \A p \in Wire : wire[p].kind # "fail"

\* the entry of results made for the name of index i names a run and i
FromRun(entry, t) ==
    entry.id[Len(entry.id) - 1] = t

\* C19: a start of handleProcessFile empties results before the first name
\* is processed, so results holds only entries of the most recently started
\* file: one for each of its names processed so far, in order.
C19_ResultsOfLatestFileOnly ==
    now >= 1 =>
        /\ ppc = "reading" => results = <<>>
        /\ Len(results) = idx
        /\ \A k \in 1..Len(results) :
              /\ FromRun(results[k], now)
              /\ results[k].name = extractNames(SheetRows(runFile))[k]

\* C19 witness: a second file is being processed after a first one, and
\* its only name has an entry.
C19_Witness ==
    /\ now = 2
    /\ runFile = "B"
    /\ Len(results) = 1
    /\ results[1].name = "Cy"

\* the sources whose call for the name of index i failed
FailedSrcs(i) ==
    {wire[p].src : p \in {q \in Wire : wire[q].kind = "fail" /\ wire[q].i = i}}

\* the body the call of src for the name of index i returned, a missing
\* body when it did not return
ReturnedBody(src, i) ==
    IF \E p \in Wire : wire[p].kind = "return" /\ wire[p].src = src
                       /\ wire[p].i = i
    THEN wire[CHOOSE p \in Wire : wire[p].kind = "return"
                                  /\ wire[p].src = src /\ wire[p].i = i].data
    ELSE [hasResponses |-> FALSE, responses |-> <<>>]

\* C12: the entry of a name is made once its source calls have returned or
\* failed; when the call of one source fails, the entry records that source
\* as empty and still records and reconciles what the other source
\* returned.
C12_FailedSourceRecordedEmpty ==
    \A k \in 1..Len(results) :
        /\ \A c \in Wire : (IsCall(c) /\ wire[c].i = k - 1)
                              => OutcomeBefore(c, Len(wire) + 1)
        /\ FailedSrcs(k - 1) # {} =>
              /\ "_sdnComparison" \in DOMAIN results[k]
              /\ results[k].v2 = ReturnedBody("v2", k - 1)
              /\ results[k].v4 = ReturnedBody("v4", k - 1)
              /\ results[k]._sdnComparison =
                    compareSdnData(results[k].v2, results[k].v4, NoUnivius)

\* C20: for one request a 401 response leads to at most one token
\* re-acquisition and at most one retry; when the retried request is
\* answered 401 again, the caller gets that error and no further token
\* request or retry is made. Counted since the request was issued:
\* refreshes are the token requests made for a 401, tokenPosts all token
\* requests posted for the request: at most one at every pass of the
\* request interceptor (for a request that finds no stored token, or where
\* the request retried is itself a token request) and those made for a
\* 401.
C20_AtMostOneRefreshAndRetry ==
    \A a \in ApiNames :
        /\ refreshes[a] <= 1
        /\ retries[a] <= 1
        /\ retries[a] <= refreshes[a]
        /\ Len(replies[a]) <= 1 + retries[a]
        /\ tokenPosts[a] <= 1 + refreshes[a] + retries[a]
        /\ (Len(replies[a]) = 2 /\ replies[a][2] = 401) =>
              /\ outcome[a] = "rejected: 401"
              /\ apc[a] = "idle"
              /\ refreshes[a] = 1 /\ retries[a] = 1

\* C20 witness: a request was answered 401, a new token was acquired, the
\* retry was answered 401 again and the caller has the error, while the
\* request on the other API is under way.
C20_Witness ==
    /\ replies["api1"] = <<401, 401>>
    /\ refreshes["api1"] = 1
    /\ retries["api1"] = 1
    /\ tokenPosts["api1"] = 2
    /\ outcome["api1"] = "rejected: 401"
    /\ apc["api2"] = "sent"

\* part_000: the token request of the request interceptor was answered
\* 401, a new token was acquired, the token request was issued again
\* through the instance and answered 401 again: the caller has the error
C20_WitnessTokenRequest ==
    /\ authRevision = "part_000"
    /\ inFlight["api1"] = "tokenPost"
    /\ replies["api1"] = <<401, 401>>
    /\ refreshes["api1"] = 1
    /\ retries["api1"] = 1
    /\ tokenPosts["api1"] = 3
    /\ outcome["api1"] = "rejected: 401"

\* apiService.js: the token request of the request interceptor was
\* answered 401 and the caller has a TypeError; nothing was retried
C20_WitnessTypeError ==
    /\ authRevision = "apiService"
    /\ outcome["api1"] = "rejected: TypeError"
    /\ replies["api1"] = <<>>
    /\ refreshes["api1"] = 0
    /\ tokenPosts["api1"] = 1

\* ------------------------------------ processNameWithBothApis, stepwise
BothNames == {"Ann", "Ben", "Cy"}

\* response.data of the screening endpoint in a 2xx response: any JSON
\* object, with or without members named responses, success and error
ResponseBodies ==
    {EmptyObject,
     [responses |-> <<>>],
     [responses |-> <<IdPool[1]>>],
     [responses |-> <<IdPool[1], IdPool[2]>>],
     [success |-> TRUE, responses |-> <<IdPool[1]>>],
     [success |-> FALSE, responses |-> <<>>],
     [success |-> FALSE, error |-> "No screening list loaded"],
     [error |-> "Name too short", responses |-> <<>>]}

\* error.message of a rejected api.post
ErrorMessages == {"Network Error", "Request failed with status code 500"}

\* how a call of processName for the API can end: api.post resolved and
\* the body is returned with the bookkeeping keys, or it was rejected and
\* the catch returns the error object
NameOutcomes(a) ==
    {[failed |-> FALSE, value |-> NameResult(b, a)] : b \in ResponseBodies}
    \cup {[failed |-> TRUE, value |-> NameError(m, a)] : m \in ErrorMessages}

Sent(a) == [kind |-> "request", api |-> a]
Settled(a, result) ==
    [kind |-> "settled", api |-> a, result |-> result.value,
     failed |-> result.failed]

\* processNameWithBothApis(name) up to the await of both requests at once
processNameWithBothApisConcurrent(name) ==
    /\ bothPc \in {"idle", "done"}
    /\ bothName' = name
    /\ bothPc' = "api1"
    /\ bothWire' = <<Sent("api1"), Sent("api2")>>
    /\ api1Result' = EmptyObject
    /\ bothResult' = EmptyObject
    /\ UNCHANGED <<baseVars, cfgVars, splitVars, procVars, authVars>>

\* processNameWithBothApis(name) up to the await in processName of api1
processNameWithBothApis(name) ==
    /\ bothPc \in {"idle", "done"}
    /\ bothName' = name
    /\ bothPc' = "api1"
    /\ bothWire' = <<Sent("api1")>>
    /\ api1Result' = EmptyObject
    /\ bothResult' = EmptyObject
    /\ UNCHANGED <<baseVars, cfgVars, splitVars, procVars, authVars>>

\* processName of api1 returns: api1Result is set and processApi('api2')
\* runs up to the await in processName of api2
Api1Settles(result) ==
    /\ bothPc = "api1"
    /\ api1Result' = ApiResult(result.value, "api1")
    /\ bothPc' = "api2"
    /\ bothWire' =
         IF Sent("api2") \in {bothWire[i] : i \in 1..Len(bothWire)}
         THEN Append(bothWire, Settled("api1", result))
         ELSE bothWire \o <<Settled("api1", result), Sent("api2")>>
    /\ UNCHANGED <<baseVars, cfgVars, splitVars, procVars, authVars,
                   bothName, bothResult>>

\* processName of api2 returns: the combined result is built and returned
Api2Settles(result) ==
    /\ bothPc = "api2"
    /\ bothResult' = CombinedResult(api1Result, ApiResult(result.value, "api2"))
    /\ bothPc' = "done"
    /\ bothWire' = Append(bothWire, Settled("api2", result))
    /\ UNCHANGED <<baseVars, cfgVars, splitVars, procVars, authVars,
                   bothName, api1Result>>

InitBoth ==
    /\ BaseIdle
    /\ SplitIdle
    /\ ProcIdle
    /\ AuthIdle
    /\ ServiceIdle

NextBoth ==
    \/ \E name \in BothNames : processNameWithBothApis(name)
    \/ \E r \in NameOutcomes("api1") : Api1Settles(r)
    \/ \E r \in NameOutcomes("api2") : Api2Settles(r)

SpecBoth == InitBoth /\ [][NextBoth]_vars


\* ------------------------------------------------ settings and requests
\* the address the settings give the screening endpoint of an API
SettingsUrl(c, a) ==
    c.apiBaseUrl \o "/"
      \o (IF a = "api1" THEN c.apiEndpointV1 ELSE c.apiEndpointV2)

\* the token request the settings describe
SettingsTokenRequest(c) ==
    [tokenUrl  |-> c.keycloakUrl \o "/realms/" \o c.keycloakRealm
                     \o "/protocol/openid-connect/token",
     client_id |-> c.keycloakClientId,
     username  |-> c.keycloakUsername,
     password  |-> c.keycloakPassword]

\* C21: once the settings of App have changed and the service has been
\* updated, every screening request goes to the address of the current
\* settings and every token request posts the Keycloak values of the
\* current settings.
C21_RequestsUseSettings ==
    \A a \in ApiNames :
        /\ sentTo[a] # EmptyObject =>
              sentTo[a].url = SettingsUrl(appConfig, a)
        /\ tokenSent[a] # EmptyObject =>
              tokenSent[a] = SettingsTokenRequest(appConfig)

\* the requests agree with the settings as long as these are the defaults
C21_DefaultSettingsUsed ==
    appConfig = DEFAULT_CONFIG =>
        \A a \in ApiNames :
            /\ sentTo[a] # EmptyObject =>
                  sentTo[a].url = SettingsUrl(appConfig, a)
            /\ tokenSent[a] # EmptyObject =>
                  tokenSent[a] = SettingsTokenRequest(appConfig)

\* --------------------------------------------------- updateConfig frame
\* what the argument of the last updateConfig call names of an API
Mentioned(a) == ObjectOrEmpty(newConfigArg, a)
MentionedKeycloak(a) == KeycloakOrEmpty(newConfigArg, a)

\* api1 / api2 of a configuration have every field
Complete(config) ==
    \A a \in ApiNames :
        /\ a \in DOMAIN config
        /\ DOMAIN config[a] = {"url", "keycloak"}
        /\ DOMAIN config[a].keycloak = KeycloakFields

\* C29: updateConfig(newConfig) changes only what newConfig mentions: an
\* api field, a keycloak sub-field or another key absent from newConfig
\* keeps its previous value and a mentioned one takes the new value; so
\* updateConfig of the current configuration changes nothing; and after
\* every call both APIs have a complete configuration and an axios
\* instance created from it.
C29_UpdateChangesOnlyMentioned ==
    /\ Complete(svcConfig)
    /\ DOMAIN apiInstances = ApiNames
    /\ \A a \in ApiNames :
          /\ apiInstances[a].baseURL = svcConfig[a].url
          /\ svcConfig[a].url =
               IF "url" \in DOMAIN Mentioned(a) THEN Mentioned(a).url
               ELSE prevConfig[a].url
          /\ \A k \in KeycloakFields :
                svcConfig[a].keycloak[k] =
                  IF k \in DOMAIN MentionedKeycloak(a)
                  THEN MentionedKeycloak(a)[k]
                  ELSE prevConfig[a].keycloak[k]
    /\ \A k \in DOMAIN prevConfig \ (DOMAIN newConfigArg \cup ApiNames) :
          k \in DOMAIN svcConfig /\ svcConfig[k] = prevConfig[k]
    /\ newConfigArg = prevConfig => svcConfig = prevConfig

\* C29 witness: updateConfig was called naming only the realm of api1,
\* after earlier calls had changed the password and the address of api1,
\* and those are still in place.
C29_Witness ==
    /\ newConfigArg = [api1 |-> [keycloak |-> [realm |-> "Staging"]]]
    /\ prevConfig.api1.keycloak.realm = "ScreeningApp"
    /\ svcConfig.api1.keycloak.realm = "Staging"
    /\ svcConfig.api1.keycloak.password = "s3cret"
    /\ svcConfig.api1.url = AltBaseUrl \o "/v9"

\* updateConfig was called on the configuration it had at that moment
C29_WitnessCurrent ==
    /\ newConfigArg = prevConfig
    /\ svcConfig.api1.keycloak.password = "s3cret"

\* ------------------------------------------ both APIs, one after another
\* positions of the wire holding the event
WireAt(e) == {i \in 1..Len(bothWire) : bothWire[i] = e}

SettledAt(a) ==
    {i \in 1..Len(bothWire) :
        bothWire[i].kind = "settled" /\ bothWire[i].api = a}

\* the call of processName for the API ended in its catch
FailedCall(a) == \E i \in SettledAt(a) : bothWire[i].failed

\* C22: the api2 request is never issued before the api1 call has
\* completed; once the api1 call has completed, failed or not, the api2
\* request has been issued; and a returned result has an entry for api1
\* and one for api2.
C22_SequentialBothEntries ==
    /\ \A i \in WireAt(Sent("api2")) : \E j \in SettledAt("api1") : j < i
    /\ bothPc \in {"api2", "done"} =>
          /\ SettledAt("api1") # {}
          /\ WireAt(Sent("api2")) # {}
    /\ bothPc = "done" =>
          /\ {"api1", "api2"} \subseteq DOMAIN bothResult
          /\ bothResult.api1.api = "api1"
          /\ bothResult.api2.api = "api2"

\* C22 witness: the api1 call failed and the call returned with the body
\* of api2.
C22_Witness ==
    /\ bothPc = "done"
    /\ FailedCall("api1")
    /\ ~FailedCall("api2")
    /\ "responses" \in DOMAIN bothResult.api2

\* C28: processNameWithBothApis returns a result whatever the two calls
\* did, and its success member is true exactly when at least one of the
\* two calls returned a response without error.
C28_SuccessIffSomeCallSucceeded ==
    /\ bothPc = "done" =>
          /\ "success" \in DOMAIN bothResult
          /\ bothResult.success =
                (~FailedCall("api1") \/ ~FailedCall("api2"))
    /\ bothPc # "done" => bothResult = EmptyObject

\* the function returns a result whatever the two calls did, and its
\* success member is the disjunction of the success members of the two
\* entries; an entry's success is false when the call failed, the body's
\* own success member when it has one, and true otherwise
EntrySuccess(a) ==
    LET r == bothWire[CHOOSE i \in SettledAt(a) : TRUE]
    IN  IF "success" \in DOMAIN r.result THEN r.result.success ELSE TRUE

C28_SuccessOfEntries ==
    /\ bothPc = "done" =>
          /\ "success" \in DOMAIN bothResult
          /\ bothResult.success = (EntrySuccess("api1") \/ EntrySuccess("api2"))
          /\ (FailedCall("api1") /\ FailedCall("api2")) => ~bothResult.success
    /\ bothPc # "done" => bothResult = EmptyObject

\* both calls failed and the call returned with success false
C28_BothFailed ==
    /\ bothPc = "done"
    /\ FailedCall("api1")
    /\ FailedCall("api2")
    /\ bothResult.success = FALSE

\* neither call failed, both bodies carry success: false, and the call
\* returned with success false
C28_NeitherFailedYetFalse ==
    /\ bothPc = "done"
    /\ ~FailedCall("api1")
    /\ ~FailedCall("api2")
    /\ bothResult.success = FALSE

\* ------------------------------------ screen lists and exported columns
\* the ids of a list of entries, as a set
IdSet(list) == {list[i].id : i \in 1..Len(list)}

\* both lists hold the same ids and each holds every id once
SameIdsEachOnce(shown, exported) ==
    /\ IdSet(shown) = IdSet(exported)
    /\ Len(shown) = Cardinality(IdSet(shown))
    /\ Len(exported) = Cardinality(IdSet(exported))

\* C23: for every result, the ids compareSdnData lists as only in V2, only
\* in V4 and only in Univius are the ids exportToExcel puts into the
\* matching 'Only in' column: the same set, each id once, also when a
\* record has no id or a source repeats an id.
C23_ScreenAndExportAgree ==
    revision = "App" =>
        \A k \in 1..Len(results) :
            /\ SameIdsEachOnce(results[k]._sdnComparison.onlyInV2,
                               ExportExclusive(results[k]).onlyInV2)
            /\ SameIdsEachOnce(results[k]._sdnComparison.onlyInV4,
                               ExportExclusive(results[k]).onlyInV4)
            /\ SameIdsEachOnce(results[k]._sdnComparison.onlyInUnivius,
                               ExportExclusive(results[k]).onlyInUnivius)

\* every record of the results has an id and no source repeats one
CleanResults ==
    \A k \in 1..Len(results) :
        /\ \A i \in 1..Len(Responses(results[k].v2)) :
              Truthy(SdnidOf(Responses(results[k].v2)[i]))
        /\ \A i \in 1..Len(Responses(results[k].v4)) :
              Truthy(SdnidOf(Responses(results[k].v4)[i]))
        /\ \A i \in 1..Len(UnivArray(results[k].univius)) :
              Truthy(UnivArray(results[k].univius)[i].sdnId)
        /\ NoRepeatedIds(RuleIdSeq(results[k].v2))
        /\ NoRepeatedIds(RuleIdSeq(results[k].v4))
        /\ NoRepeatedIds(UnivIdSeq(results[k].univius))

\* the screen lists and the exported columns agree on results whose
\* records all have ids and whose sources repeat none
C23_AgreeOnCleanResults == CleanResults => C23_ScreenAndExportAgree

\* --------------------------------------------- the list behind 'Only in'
\* the session of handleProcessFile (file choice, Process, the reading, the
\* calls of every name and their answers, failed calls, a second Process on
\* the same or another file) together with the tabs and the export of the
\* 'Only in' list
NextTabs ==
    \/ NextProc
    \/ \E newValue \in {"combined", "onlyIn"} : handleTabChange(newValue)
    \/ exportOnlyInToExcel

SpecTabs == InitProc /\ [][NextTabs]_vars

\* the comparison of the result lists an id as exclusive to some source; an
\* entry of the inner catch has no comparison
HasExclusiveId(result) ==
    /\ "_sdnComparison" \in DOMAIN result
    /\ \/ Len(result._sdnComparison.onlyInV2) > 0
       \/ Len(result._sdnComparison.onlyInV4) > 0
       \/ Len(result._sdnComparison.onlyInUnivius) > 0

\* C24: while the 'Only in' tab is open, onlyInResults is the current
\* results filtered to those with at least one id exclusive to V2, V4 or
\* Univius, whatever Process, append and tab events came before.
C24_OnlyInResultsCurrent ==
    (revision = "App" /\ activeTab = "onlyIn") =>
        onlyInResults = SelectSeq(results, HasExclusiveId)

\* right after the tab is opened, onlyInResults is the results filtered by
\* the predicate of handleTabChange
C24_FilteredWhenOpened ==
    [][\A newValue \in {"onlyIn"} :
          handleTabChange(newValue) =>
              onlyInResults' = SelectSeq(results, HasOnlyIn)]_vars

\* with the tab open, Process was clicked again and a result of the new
\* run is on the screen, while the list behind the tab still holds an
\* entry of the run before
C24_StaleAfterProcess ==
    /\ activeTab = "onlyIn"
    /\ now = 2
    /\ Len(results) > 0
    /\ Len(onlyInResults) > 0
    /\ onlyInResults[1].id[2] = 1

\* with the tab open, a result with exclusive ids was appended and is
\* missing from the list behind the tab
C24_AppendedNotListed ==
    /\ activeTab = "onlyIn"
    /\ now = 1
    /\ Len(results) = 2
    /\ HasOnlyIn(results[2])
    /\ onlyInResults = SelectSeq(<<results[1]>>, HasOnlyIn)

\* --------------------------------------------- one entry for every name
\* handleProcessFile has returned from a run on a file it could read
Finished == ppc = "idle" /\ now >= 1 /\ Readable(runFile)

\* the calls made for the name of index i
CallsFor(i) == {c \in Wire : IsCall(c) /\ wire[c].i = i}

\* C25: when handleProcessFile has finished a file with n names, results
\* has n entries and the i-th carries the i-th name; the entry of a name is
\* an error entry exactly when a call for it failed, and the calls for
\* every later name were still made.
C25_OneEntryPerNameInOrder ==
    Finished =>
        LET expected == extractNames(SheetRows(runFile))
        IN  /\ Len(results) = Len(expected)
            /\ \A k \in 1..Len(expected) :
                  /\ k <= Len(results)
                  /\ results[k].name = expected[k]
                  /\ ("error" \in DOMAIN results[k]) = (FailedSrcs(k - 1) # {})
                  /\ CallsFor(k - 1) # {}

\* C25 witness: the run on the file with two names has finished, a call
\* for the first name failed and the second name has its compared entry.
C25_Witness ==
    /\ Finished
    /\ runFile = "A"
    /\ Len(results) = 2
    /\ "error" \in DOMAIN results[1]
    /\ results[1].name = "Ann"
    /\ "_sdnComparison" \in DOMAIN results[2]
    /\ results[2].name = "Ben"

\* ------------------------------------------------------ loading is reset
\* C26: every run of handleProcessFile that has set loading sets it back
\* to false, whether all names are processed, the file cannot be read or
\* parsed, or names fail.
C26_LoadingEventuallyReset == loading ~> ~loading

\* while loading is set no second run is started: a start is a step from
\* loading = FALSE
C26_NoSecondRunWhileLoading ==
    [][now' # now => (~loading /\ loading')]_vars

\* a run on a file that the reader can load sets loading back to false
C26_LoadedRunsEnd == (loading /\ Loads(runFile)) ~> ~loading

\* a request on a was answered 401, the token request made for it failed
\* and the caller has the acquisition error; no later request on a has
\* started
RefreshFailed(a) ==
    /\ apc[a] = "idle"
    /\ refreshes[a] = 1
    /\ retries[a] = 0
    /\ outcome[a] = "rejected: auth"

\* what holds of API a between the steps
C27_State(a) ==
    \* after the failed re-acquisition no token is stored
    /\ RefreshFailed(a) => tokens[a] = NoToken
    \* a request is under way only with the stored token in its header
    /\ apc[a] = "sent" => (tokens[a] # NoToken /\ header[a] = tokens[a])
    \* the token the last getAccessToken returned is the stored token
    /\ returned[a] # NoToken => tokens[a] = returned[a]

\* a step of the service seen from API a
C27_Step(a) ==
    \* the token request made for a 401 fails
    /\ (apc[a] = "refresh" /\ apc'[a] = "idle")
          => /\ tokens'[a] = NoToken
             /\ outcome'[a] = "rejected: auth"
             /\ retries'[a] = 0
    \* a request that finds no stored token waits for a token request
    /\ (apc[a] = "request" /\ tokens[a] = NoToken)
          => apc'[a] \in {"request", "acquiring"}
    \* and is sent with the token that request returned
    /\ (apc[a] = "acquiring" /\ apc'[a] = "sent")
          => /\ tokens'[a] \in TokenPool
             /\ returned'[a] = tokens'[a]
             /\ header'[a] = tokens'[a]
    \* a successful getAccessToken
    /\ \A tok \in TokenPool :
          (RequestAcquiresToken(a, tok) \/ Refresh(a, tok))
             => (tokens'[a] = tok /\ returned'[a] = tok)

\* C27: when the token request made for a 401 fails, the stored token of
\* the API is removed and the caller gets the acquisition error, so the
\* next request for that API finds no stored token and acquires a fresh
\* one before it is sent; after any successful getAccessToken the stored
\* token is the token returned.
C27_FailedRefreshRemovesToken ==
    /\ [](\A a \in ApiNames : C27_State(a))
    /\ [][\A a \in ApiNames : C27_Step(a)]_vars

\* C27 witness: the request on api1 was sent with the stored token and
\* answered 401, the token request made for it failed, the caller has the
\* acquisition error and no token is stored.
C27_Witness ==
    /\ RefreshFailed("api1")
    /\ inFlight["api1"] = "request"
    /\ replies["api1"] = <<401>>
    /\ header["api1"] = "t0"
    /\ returned["api1"] = NoToken
    /\ tokens["api1"] = NoToken

\* a request on api1 that found no stored token acquired t2 and was sent
\* with it
C27_WitnessAcquired ==
    /\ apc["api1"] = "sent"
    /\ refreshes["api1"] = 0
    /\ tokenPosts["api1"] = 1
    /\ returned["api1"] = "t2"
    /\ tokens["api1"] = "t2"
    /\ header["api1"] = "t2"

====
